---- MODULE Spec2Model ----
(***************************************************************************)
(* The SQLite storage engine of src/lib/sqlite-store.ts: the write queue   *)
(* (createWriteQueue), the database factory (createDatabase) with its      *)
(* per-table store handles, prepared-statement cache and generation        *)
(* counter, and backup / restore.  The JavaScript event loop is modelled   *)
(* by a microtask queue: synchronous code (a drain, a store call) runs to  *)
(* completion before the next microtask starts.                            *)
(* CrudSpec adds the request handlers buildRoutes makes for a resource     *)
(* class (src/lib/stores.ts): POST, PUT and DELETE over a memory store or  *)
(* the SQLite store, each handler running from one await to the next.      *)
(***************************************************************************)
EXTENDS Integers, Sequences, FiniteSets, TLC

\* ------------------------------------------------------------------ bounds

\* Enqueue calls (store mutations, backups, restores) made in one behaviour.
MaxTasks == 3
MaxLiveTasks == 2
\* Restore calls among them (each restore adds a file and a connection).
MaxRestores == 1

\* ------------------------------------------------------------- input sets

Tables == {"alpha", "beta"}
Ids == {"a", "b"}

\* Key order of the JSON text of an entity.
KeyOrder == <<"id", "v", "n", "s", "c", "userId", "role", "used", "expiresAt">>

\* JSON.stringify of an entity: the text as the list of its key/value pairs.
Stringify(o) ==
  LET ks == SelectSeq(KeyOrder, LAMBDA k : k \in DOMAIN o)
  IN  [i \in 1..Len(ks) |-> <<ks[i], o[ks[i]]>>]

\* JSON.parse of such a text: the object with those keys.
Parse(s) ==
  [k \in {s[i][1] : i \in 1..Len(s)} |->
     s[CHOOSE i \in 1..Len(s) : s[i][1] = k][2]]

\* ------------------------------------------------------------ file images

\* A table that was never created in a file.
NoTable == [exists |-> FALSE, rows |-> <<>>]
EmptyTable == [exists |-> TRUE, rows |-> <<>>]

Row(item) == [id |-> item.id, data |-> Stringify(item)]

\* A database file image: the tables it holds, rows in rowid order.
DbFile(tabs) == [fmt |-> "sqlite", tables |-> tabs]

\* Bytes that are not a database file (the restore endpoint accepts any
\* request body).
NotADb == [fmt |-> "garbage", tables |-> [alpha |-> NoTable, beta |-> NoTable]]

IsDb(f) == f.fmt = "sqlite"

\* A file that no path names and no statement can reach any more.
Unlinked ==
  [fmt |-> "unlinked", tables |-> [alpha |-> NoTable, beta |-> NoTable]]

\* The database files createDatabase may find at its path.
InitFiles ==
  { DbFile([alpha |-> NoTable, beta |-> NoTable]),
    DbFile([alpha |-> [exists |-> TRUE,
                       rows |-> <<Row([id |-> "a", v |-> 0])>>],
            beta |-> NoTable]) }

\* ------------------------------------------------- SQL statements on rows

HasId(rows, id) == \E i \in 1..Len(rows) : rows[i].id = id

\* SELECT data FROM t WHERE id = ?
SqlGet(rows, id) ==
  IF HasId(rows, id)
    THEN [found |-> TRUE,
          data |-> rows[CHOOSE i \in 1..Len(rows) : rows[i].id = id].data]
    ELSE [found |-> FALSE, data |-> <<>>]

\* INSERT INTO t (id, data) VALUES (?, ?): the primary key rejects a duplicate.
SqlInsert(rows, id, data) ==
  IF HasId(rows, id)
    THEN [threw |-> TRUE, rows |-> rows]
    ELSE [threw |-> FALSE, rows |-> Append(rows, [id |-> id, data |-> data])]

\* INSERT ... ON CONFLICT(id) DO UPDATE SET data = excluded.data
SqlUpsert(rows, id, data) ==
  IF HasId(rows, id)
    THEN LET i == CHOOSE k \in 1..Len(rows) : rows[k].id = id
         IN  [rows EXCEPT ![i] = [id |-> id, data |-> data]]
    ELSE Append(rows, [id |-> id, data |-> data])

\* DELETE FROM t WHERE id = ?
SqlDelete(rows, id) ==
  [changes |-> Cardinality({i \in 1..Len(rows) : rows[i].id = id}),
   rows |-> SelectSeq(rows, LAMBDA r : r.id # id)]

\* The inserts of write()'s transaction, in the order of the items.
RECURSIVE InsertAll(_, _)
InsertAll(rows, items) ==
  IF items = <<>> THEN [threw |-> FALSE, rows |-> rows]
  ELSE LET r == SqlInsert(rows, Head(items).id, Stringify(Head(items)))
       IN  IF r.threw THEN [threw |-> TRUE, rows |-> rows]
           ELSE InsertAll(r.rows, Tail(items))

\* ------------------------------------------------------------------ state

VARIABLES
  queue,          \* createWriteQueue: the queued tasks, oldest first
  draining,       \* createWriteQueue: drain's re-entrancy flag
  micro,          \* the event loop's microtask queue, oldest first
  running,        \* a caller's synchronous code is on the stack
  dpc,            \* where the running drain call is ("idle": no drain runs)
  batch,          \* drain: the tasks spliced off the queue
  bi,             \* drain: index in batch of the for loop
  rpc,            \* restore: the next step of the running restore task (0: none)
  eng,            \* createDatabase: db, generation, files, store handles
  staleStmtRuns,  \* the runtime: a statement of a closed connection still runs
                  \* ("yes" or "no"; "unseen" until a restore has failed)
  fut,            \* per task, the state of the promise enqueue returned
  inflight,       \* results of settled promises their async wrapper still awaits
  reactions,      \* tasks whose promise has a then-reaction registered
  nRestores,      \* the restore calls made so far
  cap,            \* the number of tasks enqueued at most in this run
  started,        \* the tasks whose op began, in that order
  executing,      \* the tasks whose op began and did not finish yet
  settled,        \* the store calls whose promise settled, in that order
  snaps,          \* the backup the caller holds (the latest)
  batchPre,       \* the engine when the running batch was spliced off (<<>>: none)
  opPre,          \* the engine when the running op began (<<>>: none)
  cfg,            \* the resource buildRoutes serves: its store, topic and sink
  mem,            \* memoryStore: items
  reqs,           \* the requests received, each with its handler's locals
  published,      \* what server.publish was called with, in that order
  decl,           \* the class as written: its policies and decorator order
  pending,        \* the decorators of the class still to be applied, in order
  meta,           \* ClassMeta: what the decorators applied so far recorded
  routes,         \* buildRoutes: the route object it returned ({}: not built)
  sessions,       \* provide("sessions", ...) was called
  areqs,          \* the requests sent to the routes, with what came of them
  topics,         \* _notifyTopics: the whitelist buildRoutes filled
  subs,           \* per connection, the topics ws.subscribe made it listen to
  up,             \* per connection, the frames on their way to the server
  down,           \* per connection, the events on their way to the client
  todos,          \* the collection of the todos resource on the server
  nMut,           \* the mutations of todos made so far
  client,         \* connectTodos on connection 1: its map, listener and load
  vals,           \* the validate calls made on the token store, with their locals
  clock,          \* Date.now()
  store,          \* the kind of the store whose read() is called
  heap,           \* the entity objects of the process, by address
  arrays,         \* the arrays of the process, each a list of addresses
  held,           \* memoryStore: the array its variable items refers to
  taken,          \* the arrays read() returned to the caller, in order
  file,           \* jsonFile: the file at its path
  wrote,          \* the latest write call of the caller: its items, its outcome
  provided,       \* provide("db", ...) was called
  handles,        \* the store handles the factories returned, in order
  prepared,       \* the table names statements were built for
  subscriptions,  \* the wrapper's Set of topics, in insertion order
  backoff,        \* the wrapper's retry delay, in ms
  sock,           \* readyState of the wrapper's current WebSocket
  timer,          \* the setTimeout of the close listener: armed, its delay
  wire,           \* the frames sent on the connection the server has not read
  served,         \* the topics the server has the connection subscribed to
  wanted,         \* the topics opened through the wrapper and not closed since
  late            \* the topics last opened or closed with no open connection

vars == <<queue, draining, micro, running, dpc, batch, bi, rpc, eng,
          staleStmtRuns, fut, inflight, reactions, nRestores, cap, started,
          executing,
          settled, snaps, batchPre, opPre, cfg, mem, reqs, published,
          decl, pending, meta, routes, sessions, areqs,
          topics, subs, up, down, todos, nMut, client, vals, clock,
          store, heap, arrays, held, taken, file, wrote,
          provided, handles, prepared,
          subscriptions, backoff, sock, timer, wire, served, wanted, late>>

\* The write queue, the engine and the CRUD handlers' state.
bVars == <<queue, draining, micro, running, dpc, batch, bi, rpc, eng,
           staleStmtRuns, fut, inflight, reactions, nRestores, cap, started,
           executing, settled, snaps, batchPre, opPre, cfg, mem, reqs,
           published>>
\* The decorated class, its routes and the requests to them.
aVars == <<decl, pending, meta, routes, sessions, areqs>>
\* The WebSocket side of the server and the live store of a client.
lVars == <<topics, subs, up, down, todos, nMut, client>>
\* The token store.
tVars == <<vals, clock>>
\* The objects a store and its caller share.
sVars == <<store, heap, arrays, held, taken, file, wrote>>
\* The store handles of the two factories.
nVars == <<provided, handles, prepared>>
\* The variables of the sections after the stores' objects.
\* The reconnecting WebSocket of a page and the server's end of it.
rVars == <<subscriptions, backoff, sock, timer, wire, served, wanted, late>>
oVars == <<nVars, rVars>>
xVars == <<aVars, lVars, tVars, sVars, oVars>>

\* ------------------------------------------------------- the engine, pure

\* The connection the variable db holds.
Db(e) == e.conns[e.db]

\* The file a connection has open.
FileOf(e, c) == e.inodes[e.conns[c].inode]

\* db.run / db.prepare / db.serialize on the current connection succeed only on
\* an open connection whose file is a database.
DbUsable(e) == Db(e).open /\ IsDb(FileOf(e, e.db))

\* prepare(): nothing when the cached generation is current; else CREATE TABLE
\* IF NOT EXISTS on db, the six statements prepared on db, gen = generation.
Prepare(e, tb) ==
  IF e.stores[tb].gen = e.generation THEN [threw |-> FALSE, e |-> e]
  ELSE IF ~DbUsable(e) THEN [threw |-> TRUE, e |-> e]
  ELSE LET ino == Db(e).inode
           e1 == [e EXCEPT !.inodes[ino].tables[tb] =
                              IF @.exists THEN @ ELSE EmptyTable]
       IN  [threw |-> FALSE,
            e |-> [e1 EXCEPT !.stores[tb].stmts = e.db,
                             !.stores[tb].gen = e.generation]]

\* A cached statement runs on the connection it was prepared on.
StmtsRun(e, tb) == e.conns[e.stores[tb].stmts].open \/ staleStmtRuns = "yes"

StmtsInode(e, tb) == e.conns[e.stores[tb].stmts].inode

RowsOf(e, tb) == e.inodes[StmtsInode(e, tb)].tables[tb].rows

SetRows(e, tb, rows) ==
  [e EXCEPT !.inodes[StmtsInode(e, tb)].tables[tb].rows = rows]

Void == [t |-> "void"]
Threw(e) == [threw |-> TRUE, e |-> e, val |-> Void]
Returned(e, v) == [threw |-> FALSE, e |-> e, val |-> v]

\* read(): every row's data, parsed, in rowid order.
OpRead(e, tb) ==
  LET p == Prepare(e, tb) IN
  IF p.threw \/ ~StmtsRun(p.e, tb) THEN Threw(p.e)
  ELSE LET rows == RowsOf(p.e, tb)
       IN  Returned(p.e, [t |-> "items",
                          items |-> [i \in 1..Len(rows) |-> Parse(rows[i].data)]])

\* findById(id)
OpFindById(e, tb, id) ==
  LET p == Prepare(e, tb) IN
  IF p.threw \/ ~StmtsRun(p.e, tb) THEN Threw(p.e)
  ELSE LET row == SqlGet(RowsOf(p.e, tb), id)
       IN  IF row.found
             THEN Returned(p.e, [t |-> "item", item |-> Parse(row.data)])
             ELSE Returned(p.e, [t |-> "null"])

\* (variant: the statements of write() are not in a transaction: what ran
\* before a failing insert stays)
OpWriteNoTransaction(e, tb, items) ==
  LET p == Prepare(e, tb) IN
  IF p.threw \/ ~StmtsRun(p.e, tb) THEN Threw(p.e)
  ELSE LET r == InsertAll(<<>>, items)
       IN  IF r.threw THEN Threw(SetRows(p.e, tb, r.rows))
           ELSE Returned(SetRows(p.e, tb, r.rows), Void)

\* write(items): one transaction, clear then insert each item; a failing insert
\* rolls the transaction back.
OpWrite(e, tb, items) ==
  LET p == Prepare(e, tb) IN
  IF p.threw \/ ~StmtsRun(p.e, tb) THEN Threw(p.e)
  ELSE LET r == InsertAll(<<>>, items)
       IN  IF r.threw THEN Threw(p.e)
           ELSE Returned(SetRows(p.e, tb, r.rows), Void)

\* (variant: an insert of an id the table holds replaces the stored entity)
OpInsertUpsert(e, tb, item) ==
  LET p == Prepare(e, tb) IN
  IF p.threw \/ ~StmtsRun(p.e, tb) THEN Threw(p.e)
  ELSE Returned(SetRows(p.e, tb,
                  SqlUpsert(RowsOf(p.e, tb), item.id, Stringify(item))),
                [t |-> "item", item |-> item])

\* insert(item)
OpInsert(e, tb, item) ==
  LET p == Prepare(e, tb) IN
  IF p.threw \/ ~StmtsRun(p.e, tb) THEN Threw(p.e)
  ELSE LET r == SqlInsert(RowsOf(p.e, tb), item.id, Stringify(item))
       IN  IF r.threw THEN Threw(p.e)
           ELSE Returned(SetRows(p.e, tb, r.rows), [t |-> "item", item |-> item])

\* (variant: an id among the fields wins over the addressed id)
MergeFieldsId(existing, fields, id) ==
  [k \in DOMAIN existing \cup DOMAIN fields \cup {"id"} |->
     IF k \in DOMAIN fields THEN fields[k]
     ELSE IF k = "id" THEN id ELSE existing[k]]

\* { ...existing, ...fields, id }
Merge(existing, fields, id) ==
  [k \in DOMAIN existing \cup DOMAIN fields \cup {"id"} |->
     IF k = "id" THEN id
     ELSE IF k \in DOMAIN fields THEN fields[k] ELSE existing[k]]

\* (variant: update stores the fields as a new row when no row has the id)
OpUpdateOrCreate(e, tb, id, fields) ==
  LET p == Prepare(e, tb) IN
  IF p.threw \/ ~StmtsRun(p.e, tb) THEN Threw(p.e)
  ELSE LET row == SqlGet(RowsOf(p.e, tb), id)
           updated == IF row.found THEN Merge(Parse(row.data), fields, id)
                      ELSE Merge([id |-> id], fields, id)
       IN  Returned(SetRows(p.e, tb,
                      SqlUpsert(RowsOf(p.e, tb), id, Stringify(updated))),
                    [t |-> "item", item |-> updated])

\* update(id, fields)
OpUpdate(e, tb, id, fields) ==
  LET p == Prepare(e, tb) IN
  IF p.threw \/ ~StmtsRun(p.e, tb) THEN Threw(p.e)
  ELSE LET row == SqlGet(RowsOf(p.e, tb), id)
       IN  IF ~row.found THEN Returned(p.e, [t |-> "null"])
           ELSE LET updated == Merge(Parse(row.data), fields, id)
                IN  Returned(SetRows(p.e, tb,
                               SqlUpsert(RowsOf(p.e, tb), id, Stringify(updated))),
                             [t |-> "item", item |-> updated])

\* remove(id)
OpRemove(e, tb, id) ==
  LET p == Prepare(e, tb) IN
  IF p.threw \/ ~StmtsRun(p.e, tb) THEN Threw(p.e)
  ELSE LET r == SqlDelete(RowsOf(p.e, tb), id)
       IN  Returned(SetRows(p.e, tb, r.rows), [t |-> "bool", b |-> r.changes > 0])

\* backup's op: db.serialize(), the image of the file db has open.
OpBackup(e) ==
  IF ~DbUsable(e) THEN Threw(e)
  ELSE Returned(e, [t |-> "bytes", bytes |-> FileOf(e, e.db)])

\* ---- restore's op, statement by statement

\* db.close()
RClose(e) == [e EXCEPT !.conns[e.db].open = FALSE]

\* unlinkSync(path + "-wal"), unlinkSync(path + "-shm"), errors swallowed
RUnlink(e) == [e EXCEPT !.wal = FALSE]

\* writeFileSync(tmp, data): a new file
RWriteTmp(e, data) ==
  [e EXCEPT !.inodes = Append(@, data), !.tmp = Len(e.inodes) + 1]

\* renameSync(tmp, path): the path names the new file
RRename(e) == [e EXCEPT !.path = e.tmp, !.tmp = 0]

\* (variant: the generation is counted when the file is reopened)
ROpenCounting(e) ==
  [e EXCEPT !.conns = Append(@, [open |-> TRUE, inode |-> e.path,
                                 openedAt |-> e.generation]),
            !.db = Len(e.conns) + 1,
            !.generation = @ + 1]

\* db = new Database(path). openedAt notes the generation at that moment (the
\* first connection is opened before generation exists: -1).
ROpen(e) ==
  [e EXCEPT !.conns = Append(@, [open |-> TRUE, inode |-> e.path,
                                 openedAt |-> e.generation]),
            !.db = Len(e.conns) + 1]

\* (variant: the PRAGMAs do not read the file)
RPragmaSilent(e) == [threw |-> FALSE, e |-> [e EXCEPT !.wal = TRUE]]

\* db.exec("PRAGMA journal_mode = WAL"); db.exec("PRAGMA busy_timeout = 5000"):
\* the first statement reads the file and throws when it is not a database.
RPragma(e) ==
  IF IsDb(FileOf(e, e.db)) THEN [threw |-> FALSE, e |-> [e EXCEPT !.wal = TRUE]]
  ELSE [threw |-> TRUE, e |-> e]

\* The files with all but the one at index keep unlinked.
RECURSIVE OnlyFile(_, _)
OnlyFile(files, keep) ==
  IF files = <<>> THEN <<>>
  ELSE Append(OnlyFile(SubSeq(files, 1, Len(files) - 1), keep),
              IF Len(files) = keep THEN files[Len(files)] ELSE Unlinked)

\* (variant: the generation is left as it is)
RGenerationKept(e) == [e EXCEPT !.inodes = OnlyFile(e.inodes, e.path)]

\* generation++. From here on every handle prepares anew before its next
\* statement, so the replaced files are read by nothing: their content is
\* dropped.
RGeneration(e) ==
  [e EXCEPT !.generation = @ + 1, !.inodes = OnlyFile(e.inodes, e.path)]

\* (variant: the generation is incremented before the file is reopened)
RestoreOrderGenerationEarly ==
  <<"close", "unlink", "write", "rename", "generation", "open", "pragma">>

\* The statements of restore's op in the order of the source.
RestoreOrder ==
  <<"close", "unlink", "write", "rename", "open", "pragma", "generation">>

\* One statement of restore's op.
RestoreStep(e, step, data) ==
  CASE step = "close"      -> [threw |-> FALSE, e |-> RClose(e)]
    [] step = "unlink"     -> [threw |-> FALSE, e |-> RUnlink(e)]
    [] step = "write"      -> [threw |-> FALSE, e |-> RWriteTmp(e, data)]
    [] step = "rename"     -> [threw |-> FALSE, e |-> RRename(e)]
    [] step = "open"       -> [threw |-> FALSE, e |-> ROpen(e)]
    [] step = "pragma"     -> RPragma(e)
    [] step = "generation" -> [threw |-> FALSE, e |-> RGeneration(e)]

\* restore's op from statement i on.
RECURSIVE RestoreFrom(_, _, _)
RestoreFrom(e, i, data) ==
  IF i > Len(RestoreOrder) THEN Returned(e, Void)
  ELSE LET r == RestoreStep(e, RestoreOrder[i], data)
       IN  IF r.threw THEN Threw(r.e) ELSE RestoreFrom(r.e, i + 1, data)

OpRestore(e, data) == RestoreFrom(e, 1, data)

\* The op of a queued task, run to its end.
ExecOp(e, task) ==
  CASE task.kind = "write"   -> OpWrite(e, task.tb, task.items)
    [] task.kind = "insert"  -> OpInsert(e, task.tb, task.item)
    [] task.kind = "update"  -> OpUpdate(e, task.tb, task.id, task.fields)
    [] task.kind = "remove"  -> OpRemove(e, task.tb, task.id)
    [] task.kind = "backup"  -> OpBackup(e)
    [] task.kind = "restore" -> OpRestore(e, task.data)
    [] task.kind = "nested" -> Returned(e, Void)

\* ----------------------------------------------------------------- inputs

Item(id, v) == [id |-> id, v |-> v]

\* The store mutations callers make.
MutationInputs ==
  { [kind |-> "insert", tb |-> "alpha", item |-> Item("a", 0)],
    [kind |-> "update", tb |-> "alpha", id |-> "a", fields |-> [v |-> 1]],
    [kind |-> "remove", tb |-> "alpha", id |-> "a"],
    [kind |-> "write", tb |-> "alpha", items |-> <<Item("b", 1)>>],
    [kind |-> "insert", tb |-> "beta", item |-> Item("a", 0)] }

\* An op a caller hands to the exported enqueue: its body calls a store method
\* (which enqueues) and returns.
NestedInputs ==
  { [kind |-> "nested",
     inner |-> [kind |-> "insert", tb |-> "alpha", item |-> Item("b", 0)]] }

\* --------------------------------------------------------------- microtasks

DrainJob == [kind |-> "drain", t |-> 0]
AdoptJob(t) == [kind |-> "adopt", t |-> t]
SettleJob(t) == [kind |-> "settle", t |-> t]
CallbackJob == [kind |-> "callback", t |-> 0]

\* The store methods are async functions: the promise their caller gets is a
\* wrapper that adopts enqueue's promise. backup and restore return enqueue's
\* promise itself.
Wrapped(kind) == kind \in {"write", "insert", "update", "remove"}


\* No resource class is served.
NoResource == [store |-> "none", notify |-> "", server |-> FALSE]

\* The engine createDatabase(path) builds on the file f: no store handle yet.
NewEngine(f) ==
  [db |-> 1,
   conns |-> <<[open |-> TRUE, inode |-> 1, openedAt |-> -1]>>,
   inodes |-> <<f>>,
   path |-> 1,
   tmp |-> 0,
   wal |-> TRUE,
   generation |-> 0,
   stores |-> [alpha |-> [made |-> FALSE, gen |-> -1, stmts |-> 0],
               beta |-> [made |-> FALSE, gen |-> -1, stmts |-> 0]]]

\* sqliteStore(tb): prepare() runs in the constructor; no handle is returned
\* when it throws.
MakeStore(e, tb) ==
  LET p == Prepare(e, tb)
  IN  IF p.threw THEN e ELSE [p.e EXCEPT !.stores[tb].made = TRUE]


\* No policy: the auth key of the metadata is undefined.
NoPolicy == [set |-> FALSE, role |-> ""]

\* getMeta: context[META] ??= { fields: [], routes: [] }
NewMeta == [resource |-> FALSE, auth |-> NoPolicy, routes |-> <<>>,
            methodAuth |-> {}]

\* The base variables of a program that has made a database and no store call.
QuietBase ==
  /\ cap = 0
  /\ queue = <<>>
  /\ draining = FALSE
  /\ micro = <<>>
  /\ running = FALSE
  /\ dpc = "idle"
  /\ batch = <<>>
  /\ bi = 0
  /\ rpc = 0
  /\ staleStmtRuns = "unseen"
  /\ fut = <<>>
  /\ inflight = {}
  /\ reactions = {}
  /\ nRestores = 0
  /\ started = <<>>
  /\ executing = {}
  /\ settled = <<>>
  /\ snaps = {}
  /\ batchPre = <<>>
  /\ opPre = <<>>
  /\ cfg = NoResource
  /\ mem = <<>>
  /\ reqs = <<>>
  /\ published = <<>>

\* No factory was called.
NoHandles ==
  /\ provided = FALSE
  /\ handles = <<>>
  /\ prepared = {}

\* The first delay of the wrapper, and the longest.
InitialBackoff == 500
MaxBackoff == 30000

\* No page has made a reconnecting WebSocket.
NoSocket ==
  /\ subscriptions = <<>>
  /\ backoff = InitialBackoff
  /\ sock = "none"
  /\ timer = [armed |-> FALSE, delay |-> 0]
  /\ wire = <<>>
  /\ served = {}
  /\ wanted = {}
  /\ late = {}

\* No file is at the path of a jsonFile store.
NoFile == [exists |-> FALSE, text |-> <<>>]

\* The caller has not called write.
NoWrite == [n |-> 0, ok |-> FALSE, items |-> <<>>]

\* No store was read.
NoObjects ==
  /\ file = NoFile
  /\ wrote = NoWrite
  /\ store = "none"
  /\ heap = <<>>
  /\ arrays = <<>>
  /\ held = 0
  /\ taken = <<>>

\* No validate call was made.
NoTokens ==
  /\ vals = <<>>
  /\ clock = 0

\* A server without resources and connections.
NoLive ==
  /\ topics = {}
  /\ subs = <<>>
  /\ up = <<>>
  /\ down = <<>>
  /\ todos = {}
  /\ nMut = 0
  /\ client = [pc |-> "init", listening |-> FALSE, disposed |-> FALSE,
               map |-> {}, resp |-> {}]

\* A program that declares no class with routes and serves no request.
NoClasses ==
  /\ decl = [resource |-> FALSE, auth |-> NoPolicy, stats |-> NoPolicy,
             order |-> <<>>]
  /\ pending = <<>>
  /\ meta = NewMeta
  /\ routes = {}
  /\ sessions = FALSE
  /\ areqs = <<>>

\* The program makes the store of alpha as it starts (as createSessionStore
\* does right after createDatabase); the store of beta is made on first use.
InitWith(c) ==
  /\ cap = c
  /\ queue = <<>>
  /\ draining = FALSE
  /\ micro = <<>>
  /\ running = FALSE
  /\ dpc = "idle"
  /\ batch = <<>>
  /\ bi = 0
  /\ rpc = 0
  /\ \E f \in InitFiles : eng = MakeStore(NewEngine(f), "alpha")
  /\ staleStmtRuns = "unseen"
  /\ fut = <<>>
  /\ inflight = {}
  /\ reactions = {}
  /\ nRestores = 0
  /\ started = <<>>
  /\ executing = {}
  /\ settled = <<>>
  /\ snaps = {}
  /\ batchPre = <<>>
  /\ opPre = <<>>
  /\ cfg = NoResource
  /\ mem = <<>>
  /\ reqs = <<>>
  /\ published = <<>>
  /\ NoClasses
  /\ NoLive
  /\ NoTokens
  /\ NoObjects
  /\ NoHandles
  /\ NoSocket

Init == InitWith(MaxTasks)

kVars == <<nRestores, cap>>
hVars == <<cfg, mem, reqs, published, xVars>>
qVars == <<queue, draining, micro, fut, inflight, reactions, kVars, hVars>>
dVars == <<dpc, batch, bi, rpc, started, executing, batchPre, opPre>>
cVars == <<settled, snaps>>

\* ------------------------------------------------------------ caller's code

\* An event handler (a request, a timer) starts when no microtask is left.
StartMacrotask ==
  /\ ~running /\ dpc = "idle" /\ micro = <<>>
  /\ running' = TRUE
  /\ UNCHANGED <<qVars, dVars, cVars, eng, staleStmtRuns>>

\* The caller's code returns to the event loop.
ClientReturn ==
  /\ running
  /\ running' = FALSE
  /\ UNCHANGED <<qVars, dVars, cVars, eng, staleStmtRuns>>

\* createDatabase(path).sqliteStore(table), for a table with no handle yet.
CallSqliteStore(tb) ==
  /\ running
  /\ ~eng.stores[tb].made
  /\ eng' = MakeStore(eng, tb)
  /\ UNCHANGED <<qVars, dVars, cVars, running, staleStmtRuns>>

\* store.read(): not queued.
CallRead(tb) ==
  /\ running
  /\ eng.stores[tb].made
  /\ eng' = OpRead(eng, tb).e
  /\ UNCHANGED <<qVars, dVars, cVars, running, staleStmtRuns>>

\* store.findById(id): not queued.
CallFindById(tb, id) ==
  /\ running
  /\ eng.stores[tb].made
  /\ eng' = OpFindById(eng, tb, id).e
  /\ UNCHANGED <<qVars, dVars, cVars, running, staleStmtRuns>>

\* enqueue(op): queue.push({op, resolve, reject}); queueMicrotask(drain). An
\* async store method then hands enqueue's promise to its wrapper.
\* (variant: the task is put at the head of the queue)
QueueUnshift(q, t, op) == <<[id |-> t, op |-> op]>> \o q

QueuePush(q, t, op) == Append(q, [id |-> t, op |-> op])

Scheduled(m, t, op) ==
  IF Wrapped(op.kind) THEN m \o <<DrainJob, AdoptJob(t)>>
  ELSE Append(m, DrainJob)

\* The tasks still to run whose op will enqueue one more.
RECURSIVE NestedIn(_)
NestedIn(ts) ==
  IF ts = <<>> THEN 0
  ELSE (IF Head(ts).op.kind = "nested" THEN 1 ELSE 0) + NestedIn(Tail(ts))

Room(n) ==
  Len(fut) + NestedIn(queue)
    + (IF bi = 0 THEN 0 ELSE NestedIn(SubSeq(batch, bi, Len(batch)))) + n
    <= cap

\* m: the microtasks waiting when enqueue is called.
EnqueueOn(m, op) ==
  LET t == Len(fut) + 1 IN
  /\ queue' = QueuePush(queue, t, op)
  /\ micro' = Scheduled(m, t, op)
  /\ fut' = Append(fut, "pending")
  /\ nRestores' = nRestores + (IF op.kind = "restore" THEN 1 ELSE 0)
  /\ UNCHANGED <<draining, inflight, reactions, cap>>

Enqueue(op) == EnqueueOn(micro, op)

\* (variant: the op of a mutation runs in the call, not in a queued task)
CallMutationUnqueued(op) ==
  /\ running
  /\ eng.stores[op.tb].made
  /\ eng' = ExecOp(eng, op).e
  /\ UNCHANGED <<qVars, dVars, cVars, hVars, running, staleStmtRuns>>

\* store.write / insert / update / remove
CallMutation(op) ==
  /\ running
  /\ eng.stores[op.tb].made
  /\ Room(1)
  /\ Enqueue(op)
  /\ UNCHANGED <<dVars, cVars, hVars, running, eng, staleStmtRuns>>

\* backup()
CallBackup ==
  /\ running
  /\ Room(1)
  /\ Enqueue([kind |-> "backup"])
  /\ UNCHANGED <<dVars, cVars, hVars, running, eng, staleStmtRuns>>

\* restore(data): a backup the caller holds, or bytes that are no database.
CallRestore(data) ==
  /\ running
  /\ Room(1)
  /\ nRestores < MaxRestores
  /\ Enqueue([kind |-> "restore", data |-> data])
  /\ UNCHANGED <<dVars, cVars, hVars, running, eng, staleStmtRuns>>

\* enqueue(op) with an op of the caller's own
CallEnqueue(op) ==
  /\ running
  /\ Room(2)
  /\ Enqueue(op)
  /\ UNCHANGED <<dVars, cVars, hVars, running, eng, staleStmtRuns>>

\* ------------------------------------------------------------ the event loop

LoopFree == ~running /\ dpc = "idle" /\ micro # <<>>

\* A caller's callback runs.
RunCallback ==
  /\ LoopFree
  /\ Head(micro).kind = "callback"
  /\ micro' = Tail(micro)
  /\ running' = TRUE
  /\ UNCHANGED <<queue, draining, fut, inflight, reactions, kVars, hVars, dVars,
                 cVars, eng, staleStmtRuns>>

\* The wrapper of an async store method adopts enqueue's promise: then() on it,
\* which queues the reaction at once when the promise is settled already.
RunAdopt ==
  /\ LoopFree
  /\ Head(micro).kind = "adopt"
  /\ LET t == Head(micro).t
     IN  IF fut[t] = "pending"
           THEN /\ reactions' = reactions \cup {t}
                /\ micro' = Tail(micro)
           ELSE /\ reactions' = reactions
                /\ micro' = Append(Tail(micro), SettleJob(t))
  /\ UNCHANGED <<queue, draining, fut, inflight, kVars, hVars, running, dVars, cVars,
                 eng, staleStmtRuns>>

\* The wrapper settles with the result of enqueue's promise; a caller awaiting it
\* (cont) continues in a callback.
RunSettle ==
  /\ LoopFree
  /\ Head(micro).kind = "settle"
  /\ LET t == Head(micro).t
         r == CHOOSE x \in inflight : x.t = t
     IN  /\ settled' = Append(settled, t)
         /\ inflight' = inflight \ {r}
         /\ \E cont \in BOOLEAN :
              micro' = IF cont THEN Append(Tail(micro), CallbackJob)
                       ELSE Tail(micro)
  /\ UNCHANGED <<queue, draining, fut, reactions, kVars, hVars, running, dVars, snaps,
                 eng, staleStmtRuns>>

\* ------------------------------------------------------------------- drain

\* drain(): if (draining) return; draining = true;
DrainEnter ==
  /\ LoopFree
  /\ Head(micro).kind = "drain"
  /\ micro' = Tail(micro)
  /\ IF draining
       THEN UNCHANGED <<draining, dpc>>
       ELSE draining' = TRUE /\ dpc' = "while"
  /\ UNCHANGED <<queue, fut, inflight, reactions, kVars, hVars, running, batch, bi,
                 rpc, started, executing, batchPre, opPre, cVars, eng,
                 staleStmtRuns>>

RECURSIVE Reverse(_)
Reverse(q) == IF q = <<>> THEN <<>> ELSE Append(Reverse(Tail(q)), Head(q))

\* (variant: the batch is taken newest first)
DrainWhileNewestFirst ==
  /\ dpc = "while"
  /\ IF Len(queue) > 0
       THEN /\ batch' = Reverse(queue)
            /\ queue' = <<>>
            /\ bi' = 1
            /\ dpc' = "for"
            /\ batchPre' = <<eng>>
            /\ UNCHANGED draining
       ELSE /\ draining' = FALSE
            /\ dpc' = "idle"
            /\ UNCHANGED <<batch, queue, bi, batchPre>>
  /\ UNCHANGED <<micro, fut, inflight, reactions, kVars, hVars, running, rpc, started,
                 executing, opPre, cVars, eng, staleStmtRuns>>

\* (variant: the flag is not cleared when the queue is found empty)
DrainWhileKeepsFlag ==
  /\ dpc = "while"
  /\ IF Len(queue) > 0
       THEN /\ batch' = queue
            /\ queue' = <<>>
            /\ bi' = 1
            /\ dpc' = "for"
            /\ batchPre' = <<eng>>
       ELSE /\ dpc' = "idle"
            /\ UNCHANGED <<batch, queue, bi, batchPre>>
  /\ UNCHANGED <<draining, micro, fut, inflight, reactions, kVars, hVars, running,
                 rpc, started, executing, opPre, cVars, eng, staleStmtRuns>>

\* (variant: splice takes the first task only and the rest is discarded)
DrainWhileTakesOne ==
  /\ dpc = "while"
  /\ IF Len(queue) > 0
       THEN /\ batch' = <<Head(queue)>>
            /\ queue' = <<>>
            /\ bi' = 1
            /\ dpc' = "for"
            /\ batchPre' = <<eng>>
            /\ UNCHANGED draining
       ELSE /\ draining' = FALSE
            /\ dpc' = "idle"
            /\ UNCHANGED <<batch, queue, bi, batchPre>>
  /\ UNCHANGED <<micro, fut, inflight, reactions, kVars, hVars, running, rpc, started,
                 executing, opPre, cVars, eng, staleStmtRuns>>

\* while (queue.length > 0) { const batch = queue.splice(0, queue.length); ...
\* } draining = false;
DrainWhile ==
  /\ dpc = "while"
  /\ IF Len(queue) > 0
       THEN /\ batch' = queue
            /\ queue' = <<>>
            /\ bi' = 1
            /\ dpc' = "for"
            /\ batchPre' = <<eng>>
            /\ UNCHANGED draining
       ELSE /\ draining' = FALSE
            /\ dpc' = "idle"
            /\ UNCHANGED <<batch, queue, bi, batchPre>>
  /\ UNCHANGED <<micro, fut, inflight, reactions, kVars, hVars, running, rpc, started,
                 executing, opPre, cVars, eng, staleStmtRuns>>

\* (variant: the loop goes on to the next task while an op is still running)
DrainForNoWait ==
  /\ dpc \in {"for", "op"}
  /\ LET k == IF dpc = "op" THEN bi + 1 ELSE bi
     IN  IF k <= Len(batch)
           THEN /\ started' = Append(started, batch[k].id)
                /\ executing' = executing \cup {batch[k].id}
                /\ opPre' = <<eng>>
                /\ dpc' = "op"
                /\ bi' = k
                /\ rpc' = IF batch[k].op.kind = "restore" THEN 1 ELSE 0
                /\ UNCHANGED <<batch, batchPre>>
           ELSE /\ dpc = "for"
                /\ dpc' = "while"
                /\ batch' = <<>>
                /\ bi' = 0
                /\ batchPre' = <<>>
                /\ UNCHANGED <<started, executing, opPre, rpc>>
  /\ UNCHANGED <<qVars, running, cVars, eng, staleStmtRuns>>

\* for (const { op, resolve, reject } of batch): the next task's op is called,
\* or the batch is done.
DrainFor ==
  /\ dpc = "for"
  /\ IF bi <= Len(batch)
       THEN /\ started' = Append(started, batch[bi].id)
            /\ executing' = executing \cup {batch[bi].id}
            /\ opPre' = <<eng>>
            /\ dpc' = "op"
            /\ rpc' = IF batch[bi].op.kind = "restore" THEN 1 ELSE 0
            /\ UNCHANGED <<batch, bi, batchPre>>
       ELSE /\ dpc' = "while"
            /\ batch' = <<>>
            /\ bi' = 0
            /\ batchPre' = <<>>
            /\ UNCHANGED <<started, executing, opPre, rpc>>
  /\ UNCHANGED <<qVars, running, cVars, eng, staleStmtRuns>>

\* (variant: the error of an op is swallowed)
OutcomeSwallowed(r) == "fulfilled"

\* try { resolve(op()) } catch (err) { reject(err) }
Outcome(r) == IF r.threw THEN "rejected" ELSE "fulfilled"

\* try { resolve(op()) } catch (err) { reject(err) } once the op of batch[bi] has
\* ended with r: the task's promise settles and the loop goes on to the next
\* task. backup's and restore's caller holds this promise (cont: and awaits it).
Finish(r) ==
  LET t == batch[bi].id
      op == batch[bi].op
      res == [t |-> t, threw |-> r.threw, val |-> r.val]
      nested == op.kind = "nested"
      t2 == Len(fut) + 1
      fut1 == IF nested THEN Append(fut, "pending") ELSE fut
      micro1 == IF nested THEN Scheduled(micro, t2, op.inner) ELSE micro
  IN  /\ eng' = r.e
      /\ queue' = IF nested THEN QueuePush(queue, t2, op.inner) ELSE queue
      /\ fut' = [fut1 EXCEPT ![t] = Outcome(r)]
      /\ executing' = executing \ {t}
      /\ opPre' = <<>>
      /\ bi' = bi + 1
      /\ dpc' = "for"
      /\ rpc' = 0
      /\ IF Wrapped(op.kind)
           THEN /\ inflight' = inflight \cup {res}
                /\ micro' = IF t \in reactions
                              THEN Append(micro1, SettleJob(t)) ELSE micro1
                /\ UNCHANGED cVars
           ELSE /\ snaps' = IF op.kind = "backup" /\ ~r.threw
                              THEN {r.val.bytes} ELSE snaps
                /\ \E cont \in BOOLEAN :
                     micro' = IF cont THEN Append(micro1, CallbackJob)
                              ELSE micro1
                /\ UNCHANGED <<inflight, settled>>
      /\ IF staleStmtRuns = "unseen" /\ r.threw /\ op.kind = "restore"
           THEN staleStmtRuns' \in {"yes", "no"}
           ELSE UNCHANGED staleStmtRuns
      /\ UNCHANGED <<draining, reactions, kVars, hVars, running, batch, started,
                     batchPre>>

\* The op of a store mutation or a backup runs.
DrainOp ==
  /\ dpc = "op"
  /\ rpc = 0
  /\ Finish(ExecOp(eng, batch[bi].op))

\* The next statement of the running restore op.
RestoreStmt ==
  /\ dpc = "op"
  /\ rpc > 0
  /\ LET r == RestoreStep(eng, RestoreOrder[rpc], batch[bi].op.data)
     IN  IF r.threw THEN Finish(Threw(r.e))
         ELSE IF rpc = Len(RestoreOrder) THEN Finish(Returned(r.e, Void))
         ELSE /\ eng' = r.e
              /\ rpc' = rpc + 1
              /\ UNCHANGED <<qVars, running, dpc, batch, bi, started, executing,
                             batchPre, opPre, cVars, staleStmtRuns>>

Next ==
  \/ StartMacrotask
  \/ ClientReturn
  \/ \E tb \in Tables : CallSqliteStore(tb)
  \/ \E tb \in Tables : CallRead(tb)
  \/ \E tb \in Tables, id \in Ids : CallFindById(tb, id)
  \/ \E op \in MutationInputs : CallMutation(op)
  \/ CallBackup
  \/ \E op \in NestedInputs : CallEnqueue(op)
  \/ \E data \in snaps \cup {NotADb} : CallRestore(data)
  \/ RunCallback
  \/ RunAdopt
  \/ RunSettle
  \/ DrainEnter
  \/ DrainWhile
  \/ DrainFor
  \/ DrainOp
  \/ RestoreStmt

Spec == Init /\ [][Next]_vars

\* The event loop runs every microtask it holds, drain runs on once entered,
\* and a caller's synchronous code returns.
FairSpec ==
  /\ InitWith(MaxLiveTasks)
  /\ [][Next]_vars
  /\ WF_vars(ClientReturn)
  /\ WF_vars(RunCallback)
  /\ WF_vars(RunAdopt)
  /\ WF_vars(RunSettle)
  /\ WF_vars(DrainEnter)
  /\ WF_vars(DrainWhile)
  /\ WF_vars(DrainFor)
  /\ WF_vars(DrainOp)
  /\ WF_vars(RestoreStmt)

\* ------------------------------------------ resources (src/lib/stores.ts)

\* Requests received in one behaviour.
MaxReqs == 2

\* The resource class served: n is a required field, c (createdAt) a readonly
\* one, s has a default. 0 stands for the falsy values ("" and the like).
requiredFields == {"n"}
readonlyFields == {"c"}
defaults == [n |-> 0, s |-> 0, c |-> 0]

\* What crypto.randomUUID() returns to the r-th request: ids no one else has.
Uuids == <<"u1", "u2", "u3", "u4">>

\* new Date().toISOString() in the r-th request.
Now(r) == 10 + r

\* An entity the collection may hold when the program starts.
InitEntity == [id |-> "a", n |-> 1, s |-> 0, c |-> 1]
InitItems == { <<>>, <<InitEntity>> }

\* The requests clients send: method, req.params.id, JSON body.
CrudInputs ==
  { [kind |-> "POST", id |-> "", body |-> [s |-> 1]],
    [kind |-> "POST", id |-> "", body |-> [n |-> 0]],
    [kind |-> "POST", id |-> "", body |-> [n |-> 1]],
    [kind |-> "POST", id |-> "", body |-> [id |-> "a", n |-> 2, c |-> 5]],
    [kind |-> "PUT", id |-> "a", body |-> [n |-> 2]],
    [kind |-> "PUT", id |-> "a", body |-> [s |-> 1]],
    [kind |-> "PUT", id |-> "a", body |-> [id |-> "b", c |-> 9]],
    [kind |-> "PUT", id |-> "b", body |-> [n |-> 2]],
    [kind |-> "GET", id |-> "a", body |-> <<>>],
    [kind |-> "DELETE", id |-> "a", body |-> <<>>],
    [kind |-> "DELETE", id |-> "b", body |-> <<>>] }

NoItem == [id |-> ""]

\* A request as its handler is called.
NewReq(inp) ==
  [kind |-> inp.kind, id |-> inp.id, body |-> inp.body, pc |-> "start",
   items |-> <<>>, item |-> NoItem, fields |-> <<>>, t |-> 0,
   threw |-> FALSE, status |-> 0, error |-> <<>>]

ResumeJob(r) == [kind |-> "resume", t |-> r]

\* memoryStore / sqliteStore: read(), called now.
StoreRead ==
  IF cfg.store = "memory"
    THEN Returned(eng, [t |-> "items", items |-> mem])
    ELSE OpRead(eng, "alpha")

\* The entities the store holds now.
Stored == StoreRead.val.items

\* (variant: a required field may be there with a falsy value)
RequiredAbsent(body) ==
  \E f \in requiredFields : f \notin DOMAIN body

\* if (!body[field]) for some required field
RequiredMissing(body) ==
  \E f \in requiredFields : f \notin DOMAIN body \/ body[f] = 0

\* The field the loop over requiredFields stops at.
MissingField(body) ==
  CHOOSE f \in requiredFields : f \notin DOMAIN body \/ body[f] = 0

\* (variant: the id of the body is not looked at)
IdAlwaysNew(body, r) == Uuids[r]

\* body.id ?? crypto.randomUUID(), in the handler of request r
IdFor(body, r) == IF "id" \in DOMAIN body THEN body.id ELSE Uuids[r]

\* { ...defaults, ...body, id, createdAt: body.createdAt ?? now }
NewItem(body, id, now) ==
  [k \in DOMAIN defaults \cup DOMAIN body \cup {"id", "c"} |->
     IF k = "id" THEN id
     ELSE IF k = "c" THEN (IF "c" \in DOMAIN body THEN body.c ELSE now)
     ELSE IF k \in DOMAIN body THEN body[k] ELSE defaults[k]]

\* (variant: the first entity is taken when none has the id)
FindIndexOrFirst(items, id) ==
  IF \E i \in 1..Len(items) : items[i].id = id
    THEN CHOOSE i \in 1..Len(items) : items[i].id = id
    ELSE IF items = <<>> THEN 0 ELSE 1

\* items.findIndex(i => i.id === id), counted from 1 (0: none)
FindIndex(items, id) ==
  IF \E i \in 1..Len(items) : items[i].id = id
    THEN CHOOSE i \in 1..Len(items) :
           /\ items[i].id = id
           /\ \A j \in 1..(i - 1) : items[j].id # id
    ELSE 0

\* (variant: the body is merged as it came)
StripNothing(body) == body

\* for (const field of readonlyFields) delete body[field]
Strip(body) == [k \in DOMAIN body \ readonlyFields |-> body[k]]

\* items[idx] = { ...items[idx], ...body, id: req.params.id }
Replaced(items, idx, body, id) ==
  SubSeq(items, 1, idx - 1) \o <<Merge(items[idx], body, id)>>
    \o SubSeq(items, idx + 1, Len(items))

\* items.filter(i => i.id !== id)
Filtered(items, id) == SelectSeq(items, LAMBDA i : i.id # id)

\* JSON.stringify({ resource: notify, action, ... }) handed to server.publish;
\* req notes the request that published.
CreateEvent(r, item) ==
  [topic |-> cfg.notify, req |-> r,
   msg |-> [resource |-> cfg.notify, action |-> "create", item |-> item]]
\* (variant: the update event carries the merged entity)
UpdateEventMerged(r, id, fields) ==
  [topic |-> cfg.notify, req |-> r,
   msg |-> [resource |-> cfg.notify, action |-> "update", id |-> id,
            fields |-> reqs[r].item]]

UpdateEvent(r, id, fields) ==
  [topic |-> cfg.notify, req |-> r,
   msg |-> [resource |-> cfg.notify, action |-> "update", id |-> id,
            fields |-> fields]]
DeleteEvent(r, id) ==
  [topic |-> cfg.notify, req |-> r,
   msg |-> [resource |-> cfg.notify, action |-> "delete", id |-> id]]

\* (variant: the event is published whether or not a sink is registered)
NotifiesAlways(ev) == <<ev>>

\* const server = tryInject("server"); if (notify && server) server.publish(...)
Notifies(ev) == IF cfg.notify # "" /\ cfg.server THEN <<ev>> ELSE <<>>

\* ---- what a handler does from where it stands to its next await or return

\* (variant: the handler answers without publishing)
RespondQuiet(rq, status, pub) ==
  [rq |-> [rq EXCEPT !.pc = "done", !.status = status, !.items = <<>>],
   call |-> "none", items |-> <<>>, pub |-> <<>>, e |-> eng]

\* return Response.json(..., { status })
Respond(rq, status, pub) ==
  [rq |-> [rq EXCEPT !.pc = "done", !.status = status, !.items = <<>>],
   call |-> "none", items |-> <<>>, pub |-> pub, e |-> eng]

\* return Response.json({ error }, { status })
RespondError(rq, status, error) ==
  [rq |-> [rq EXCEPT !.pc = "done", !.status = status, !.items = <<>>,
                     !.error = error],
   call |-> "none", items |-> <<>>, pub |-> <<>>, e |-> eng]

\* await req.json(): the body arrives from the network.
AwaitBody(rq) ==
  [rq |-> [rq EXCEPT !.pc = "body"],
   call |-> "none", items |-> <<>>, pub |-> <<>>, e |-> eng]

\* await store.read(): the store is read in the call; the handler goes on in a
\* later microtask. A read that throws makes the handler throw (status 500).
AwaitRead(rq) ==
  LET rd == StoreRead IN
  IF rd.threw
    THEN [rq |-> [rq EXCEPT !.pc = "done", !.status = 500],
          call |-> "none", items |-> <<>>, pub |-> <<>>, e |-> rd.e]
    ELSE [rq |-> [rq EXCEPT !.pc = "read", !.items = rd.val.items],
          call |-> "tick", items |-> <<>>, pub |-> <<>>, e |-> rd.e]

\* await store.write(items)
AwaitWrite(rq, items) ==
  [rq |-> [rq EXCEPT !.pc = "write", !.items = <<>>],
   call |-> "write", items |-> items, pub |-> <<>>, e |-> eng]

\* routes[basePath].POST
POST(rq, r) ==
  CASE rq.pc = "start" -> AwaitBody(rq)
    [] rq.pc = "parsed" ->
         IF RequiredMissing(rq.body)
           THEN RespondError(rq, 400, <<MissingField(rq.body), "is required">>)
         ELSE AwaitRead(rq)
    [] rq.pc = "read" ->
         LET id == IdFor(rq.body, r)
             item == NewItem(rq.body, id, Now(r))
         IN  AwaitWrite([rq EXCEPT !.item = item], Append(rq.items, item))
    [] rq.pc = "write" ->
         IF rq.threw THEN Respond(rq, 500, <<>>)
         ELSE Respond(rq, 201, Notifies(CreateEvent(r, rq.item)))

\* routes[basePath + "/:id"].GET
GET(rq, r) ==
  CASE rq.pc = "start" -> AwaitRead(rq)
    [] rq.pc = "read" ->
         LET idx == FindIndex(rq.items, rq.id)
         IN  IF idx = 0 THEN RespondError(rq, 404, <<"Not found">>)
             ELSE Respond([rq EXCEPT !.item = rq.items[idx]], 200, <<>>)

\* routes[basePath + "/:id"].PUT
PUT(rq, r) ==
  CASE rq.pc = "start" -> AwaitRead(rq)
    [] rq.pc = "read" ->
         IF FindIndex(rq.items, rq.id) = 0
           THEN RespondError(rq, 404, <<"Not found">>)
         ELSE AwaitBody(rq)
    [] rq.pc = "parsed" ->
         LET idx == FindIndex(rq.items, rq.id)
             body == Strip(rq.body)
             items == Replaced(rq.items, idx, body, rq.id)
         IN  AwaitWrite([rq EXCEPT !.fields = body, !.item = items[idx]],
                        items)
    [] rq.pc = "write" ->
         IF rq.threw THEN Respond(rq, 500, <<>>)
         ELSE Respond(rq, 200, Notifies(UpdateEvent(r, rq.id, rq.fields)))

\* routes[basePath + "/:id"].DELETE
DELETE(rq, r) ==
  CASE rq.pc = "start" -> AwaitRead(rq)
    [] rq.pc = "read" ->
         LET filtered == Filtered(rq.items, rq.id)
         IN  IF Len(filtered) = Len(rq.items)
               THEN RespondError(rq, 404, <<"Not found">>)
             ELSE AwaitWrite(rq, filtered)
    [] rq.pc = "write" ->
         IF rq.threw THEN Respond(rq, 500, <<>>)
         ELSE Respond(rq, 204, Notifies(DeleteEvent(r, rq.id)))

Handler(rq, r) ==
  CASE rq.kind = "POST" -> POST(rq, r)
    [] rq.kind = "GET" -> GET(rq, r)
    [] rq.kind = "PUT" -> PUT(rq, r)
    [] rq.kind = "DELETE" -> DELETE(rq, r)

\* The handler of request r has run from where it stood to res. A write goes to
\* the store: memoryStore.write assigns items in the call, sqliteStore.write
\* enqueues a task. m: the microtasks waiting, rs: the requests.
Handled(res, r, m, rs) ==
  LET writes == res.call = "write"
      queued == writes /\ cfg.store = "sqlite"
      t == Len(fut) + 1
  IN  /\ eng' = res.e
      /\ reqs' = [rs EXCEPT ![r] = IF queued THEN [res.rq EXCEPT !.t = t]
                                   ELSE res.rq]
      /\ published' = published \o res.pub
      /\ mem' = IF writes /\ cfg.store = "memory" THEN res.items ELSE mem
      /\ IF queued
           THEN EnqueueOn(m, [kind |-> "write", tb |-> "alpha",
                              items |-> res.items])
           ELSE /\ micro' = IF res.call = "none" THEN m
                            ELSE Append(m, ResumeJob(r))
                /\ UNCHANGED <<queue, fut, draining, inflight, reactions,
                               kVars>>
      /\ UNCHANGED <<cfg, dVars, cVars, running, staleStmtRuns, xVars>>

\* Bun.serve calls the handler of a request.
Request(inp) ==
  /\ running
  /\ Len(reqs) < MaxReqs
  /\ LET r == Len(reqs) + 1
         rq == NewReq(inp)
     IN  Handled(Handler(rq, r), r, micro, Append(reqs, rq))

\* The body of a request has arrived: req.json() resolves.
BodyRead(r) ==
  /\ running
  /\ reqs[r].pc = "body"
  /\ reqs' = [reqs EXCEPT ![r].pc = "parsed"]
  /\ micro' = Append(micro, ResumeJob(r))
  /\ UNCHANGED <<queue, draining, fut, inflight, reactions, kVars, dVars,
                 cVars, running, eng, staleStmtRuns, cfg, mem, published, xVars>>

\* A handler goes on after its await.
HandlerResume ==
  /\ LoopFree
  /\ Head(micro).kind = "resume"
  /\ LET r == Head(micro).t
     IN  Handled(Handler(reqs[r], r), r, Tail(micro), reqs)

\* The promise store.write returned settles with the result of enqueue's
\* promise; the handler awaiting it goes on in a later microtask. (The lazy
\* sqliteStore wrapper adds the same number of promise hops to every call;
\* they are folded into this one.)
WriteSettled ==
  /\ LoopFree
  /\ Head(micro).kind = "settle"
  /\ LET t == Head(micro).t
         x == CHOOSE y \in inflight : y.t = t
         r == CHOOSE k \in 1..Len(reqs) : reqs[k].t = t
     IN  /\ settled' = Append(settled, t)
         /\ inflight' = inflight \ {x}
         /\ reqs' = [reqs EXCEPT ![r].threw = x.threw]
         /\ micro' = Append(Tail(micro), ResumeJob(r))
  /\ UNCHANGED <<queue, draining, fut, reactions, kVars, running, dVars, snaps,
                 eng, staleStmtRuns, cfg, mem, published, xVars>>

\* A resource class with a store of one of the two kinds, with or without a
\* notify topic, the server registered with provide("server", ...) or not.
Resources ==
  { [store |-> st, notify |-> nt, server |-> sv] :
      st \in {"memory", "sqlite"}, nt \in {"items", ""}, sv \in BOOLEAN }

RECURSIVE RowsOfItems(_)
RowsOfItems(items) ==
  IF items = <<>> THEN <<>>
  ELSE <<Row(Head(items))>> \o RowsOfItems(Tail(items))

CrudInit ==
  /\ cap = MaxReqs
  /\ queue = <<>>
  /\ draining = FALSE
  /\ micro = <<>>
  /\ running = FALSE
  /\ dpc = "idle"
  /\ batch = <<>>
  /\ bi = 0
  /\ rpc = 0
  /\ staleStmtRuns = "unseen"
  /\ fut = <<>>
  /\ inflight = {}
  /\ reactions = {}
  /\ nRestores = 0
  /\ started = <<>>
  /\ executing = {}
  /\ settled = <<>>
  /\ snaps = {}
  /\ batchPre = <<>>
  /\ opPre = <<>>
  /\ reqs = <<>>
  /\ published = <<>>
  /\ NoClasses
  /\ NoLive
  /\ NoTokens
  /\ NoObjects
  /\ NoHandles
  /\ NoSocket
  /\ cfg \in Resources
  /\ \E items \in InitItems :
       /\ mem = IF cfg.store = "memory" THEN items ELSE <<>>
       /\ eng = MakeStore(
                  NewEngine(DbFile(
                    [alpha |-> [exists |-> TRUE,
                                rows |-> IF cfg.store = "sqlite"
                                           THEN RowsOfItems(items) ELSE <<>>],
                     beta |-> NoTable])),
                  "alpha")

CrudNext ==
  \/ StartMacrotask
  \/ ClientReturn
  \/ \E inp \in CrudInputs : Request(inp)
  \/ \E r \in 1..Len(reqs) : BodyRead(r)
  \/ HandlerResume
  \/ RunAdopt
  \/ WriteSettled
  \/ DrainEnter
  \/ DrainWhile
  \/ DrainFor
  \/ DrainOp

CrudSpec == CrudInit /\ [][CrudNext]_vars

\* ------------------------------------------------------------------- auth

MaxAuthReqs == 1

\* { role: undefined } and { role: "admin" }, and no policy at all
Policies == {NoPolicy, [set |-> TRUE, role |-> ""],
             [set |-> TRUE, role |-> "admin"]}

AuthDec(on, p) == [dec |-> "Auth", on |-> on, role |-> p.role]
RouteDec(name) == [dec |-> "Route", on |-> name, role |-> ""]
ResourceDec == [dec |-> "Resource", on |-> "class", role |-> ""]
ControllerDec == [dec |-> "Controller", on |-> "class", role |-> ""]

\* Two decorators written on one element, either above the other.
Orders(a, b) == {<<a, b>>, <<b, a>>}

\* The orders in which the decorators of a class are applied: those of the
\* methods first, then those of the class; the class has a method stats with a
\* route and perhaps a policy, and a method health with a route.
DecoratorOrders(resource, auth, stats) ==
  LET ofStats == IF stats.set
                   THEN Orders(AuthDec("stats", stats), RouteDec("stats"))
                   ELSE {<<RouteDec("stats")>>}
      base == IF resource THEN ResourceDec ELSE ControllerDec
      ofClass == IF auth.set THEN Orders(AuthDec("class", auth), base)
                 ELSE {<<base>>}
  IN  {m \o <<RouteDec("health")>> \o k : m \in ofStats, k \in ofClass}

\* @Auth(role) on a class sets meta.auth, on a method the key _auth_<name>.
Auth(m, d) ==
  IF d.on = "class" THEN [m EXCEPT !.auth = [set |-> TRUE, role |-> d.role]]
  ELSE [m EXCEPT !.methodAuth =
          {x \in @ : x.name # d.on}
            \cup {[name |-> d.on, auth |-> [set |-> TRUE, role |-> d.role]]}]

\* @GET(path) and the like: meta.routes.push({ ..., methodName })
routeDecorator(m, d) == [m EXCEPT !.routes = Append(@, d.on)]

\* @Resource(basePath, store, opts): meta.resource = { ... }
Resource(m, d) == [m EXCEPT !.resource = TRUE]

\* @Controller: ensureMeta, which records nothing
Controller(m, d) == m

Decorated(m, d) ==
  CASE d.dec = "Auth" -> Auth(m, d)
    [] d.dec = "Route" -> routeDecorator(m, d)
    [] d.dec = "Resource" -> Resource(m, d)
    [] d.dec = "Controller" -> Controller(m, d)

\* The class definition is evaluated: its next decorator is applied.
Decorate ==
  /\ pending # <<>>
  /\ meta' = Decorated(meta, Head(pending))
  /\ pending' = Tail(pending)
  /\ UNCHANGED <<bVars, lVars, tVars, sVars, oVars, decl, routes, sessions, areqs>>

CrudKeys == {"GET list", "POST", "GET id", "PUT", "DELETE"}

\* meta[`_auth_${route.methodName}`], NoPolicy for undefined
MethodAuth(m, name) ==
  IF \E x \in m.methodAuth : x.name = name
    THEN (CHOOSE x \in m.methodAuth : x.name = name).auth
    ELSE NoPolicy

\* (variant: the policy of the class comes first)
RouteAuthClassFirst(m, name) ==
  IF m.auth.set THEN m.auth ELSE MethodAuth(m, name)

\* const auth = methodAuth ?? classAuth
RouteAuth(m, name) ==
  LET methodAuth == MethodAuth(m, name)
  IN  IF methodAuth.set THEN methodAuth ELSE m.auth

\* maybeWrap(handler, auth): the handler itself, or wrapWithAuth(handler, role)
maybeWrap(key, auth) ==
  [key |-> key, wrapped |-> auth.set,
   role |-> IF auth.set THEN auth.role ELSE ""]

buildRoutes(m) ==
  (IF m.resource THEN {maybeWrap(k, m.auth) : k \in CrudKeys} ELSE {})
    \cup {maybeWrap(m.routes[i], RouteAuth(m, m.routes[i])) :
            i \in 1..Len(m.routes)}

\* The program calls buildRoutes with the class, once, as it starts.
BuildRoutes ==
  /\ pending = <<>>
  /\ routes = {}
  /\ routes' = buildRoutes(meta)
  /\ routes' # {}
  /\ UNCHANGED <<bVars, lVars, tVars, sVars, oVars, decl, pending, meta, sessions, areqs>>

\* provide("sessions", createSessionStore(db))
ProvideSessions ==
  /\ ~sessions
  /\ sessions' = TRUE
  /\ UNCHANGED <<bVars, lVars, tVars, sVars, oVars, decl, pending, meta, routes, areqs>>

NoSession == [userId |-> "", role |-> ""]

\* The cookies a request comes with: none, the id of the session of an admin,
\* the id of the session of a guest.
AuthCookies == {"", "sa", "sg"}

\* sessions.fromRequest(req): null without a cookie, else the stored session
fromRequest(cookie) ==
  CASE cookie = "" -> NoSession
    [] cookie = "sa" -> [userId |-> "u1", role |-> "admin"]
    [] cookie = "sg" -> [userId |-> "u2", role |-> "guest"]

NewAuthReq(key, cookie) ==
  [key |-> key, cookie |-> cookie, pc |-> "start", configured |-> FALSE,
   resolved |-> NoSession, session |-> NoSession, invoked |-> FALSE,
   seen |-> NoSession, status |-> 0]

\* The handler the class or the method defines: it reads req.session.
Inner(rq) ==
  [rq EXCEPT !.pc = "done", !.invoked = TRUE, !.seen = rq.session,
             !.status = 200]

\* wrapWithAuth, up to its await
WrapStart(rq) ==
  IF ~sessions
    THEN [rq EXCEPT !.pc = "done", !.status = 500]
    ELSE [rq EXCEPT !.pc = "await", !.configured = TRUE]

\* (variant: the role of the policy is not compared)
wrapWithAuthAnyRole(role, rq) ==
  LET session == fromRequest(rq.cookie)
      got == [rq EXCEPT !.resolved = session]
  IN  IF session = NoSession THEN [got EXCEPT !.pc = "done", !.status = 401]
      ELSE Inner([got EXCEPT !.session = session])

\* wrapWithAuth, from its await on
wrapWithAuth(role, rq) ==
  LET session == fromRequest(rq.cookie)
      got == [rq EXCEPT !.resolved = session]
  IN  IF session = NoSession THEN [got EXCEPT !.pc = "done", !.status = 401]
      ELSE IF role # "" /\ session.role # role
        THEN [got EXCEPT !.pc = "done", !.status = 403]
      ELSE Inner([got EXCEPT !.session = session])

RouteOf(key) == CHOOSE h \in routes : h.key = key

\* Bun.serve calls the handler of routes[path][method].
AuthRequest(key, cookie) ==
  /\ Len(areqs) < MaxAuthReqs
  /\ \E h \in routes : h.key = key
  /\ LET rq == NewAuthReq(key, cookie)
     IN  areqs' = Append(areqs, IF RouteOf(key).wrapped THEN WrapStart(rq)
                                ELSE Inner(rq))
  /\ UNCHANGED <<bVars, lVars, tVars, sVars, oVars, decl, pending, meta, routes, sessions>>

\* sessions.fromRequest has resolved: the wrapper goes on.
AuthResume(r) ==
  /\ areqs[r].pc = "await"
  /\ areqs' = [areqs EXCEPT ![r] = wrapWithAuth(RouteOf(@.key).role, @)]
  /\ UNCHANGED <<bVars, lVars, tVars, sVars, oVars, decl, pending, meta, routes, sessions>>

AuthInit ==
  /\ QuietBase
  /\ eng = NewEngine(DbFile([alpha |-> NoTable, beta |-> NoTable]))
  /\ \E rs \in BOOLEAN, ca \in Policies, sa \in Policies :
       \E o \in DecoratorOrders(rs, ca, sa) :
         /\ decl = [resource |-> rs, auth |-> ca, stats |-> sa, order |-> o]
         /\ pending = o
  /\ meta = NewMeta
  /\ routes = {}
  /\ sessions = FALSE
  /\ areqs = <<>>
  /\ NoLive
  /\ NoTokens
  /\ NoObjects
  /\ NoHandles
  /\ NoSocket

AuthNext ==
  \/ Decorate
  \/ BuildRoutes
  \/ ProvideSessions
  \/ \E key \in CrudKeys \cup {"stats", "health"}, cookie \in AuthCookies :
       AuthRequest(key, cookie)
  \/ \E r \in 1..Len(areqs) : AuthResume(r)

AuthSpec == AuthInit /\ [][AuthNext]_vars

\* ------------------------------------------------- WebSocket and live store

MaxFrames == 1
MaxMutations == 2

\* The connections: the one WebSocket the views of a page share.
Conns == {1}

\* buildRoutes(Note, Todo, Checklist, Admin): the resources and their topics
ResourceClasses ==
  { [path |-> "/api/notes", notify |-> ""],
    [path |-> "/api/todos", notify |-> "todos"],
    [path |-> "/api/checklists", notify |-> "checklists"] }

\* if (notify) _notifyTopics.add(notify), for every class
NotifyTopics(classes) == {c.notify : c \in {k \in classes : k.notify # ""}}

\* A frame a client sends: a JSON text with action and resource, or a text
\* JSON.parse throws on.
Frame(action, resource) == [ok |-> TRUE, action |-> action, resource |-> resource]
Garbage == [ok |-> FALSE, action |-> "", resource |-> ""]

Frames ==
  { Frame("opendoc", "todos"), Frame("opendoc", "notes"),
    Frame("closedoc", "todos"), Frame("closedoc", "notes"), Garbage }

\* (variant: opendoc subscribes to whatever topic it names)
messageAnyTopic(whitelist, subscribed, msg) ==
  IF ~msg.ok THEN subscribed
  ELSE LET opened == IF msg.action = "opendoc"
                       THEN subscribed \cup {msg.resource} ELSE subscribed
       IN  IF msg.action = "closedoc" THEN opened \ {msg.resource} ELSE opened

\* websocket.message(ws, raw): the topics ws is subscribed to afterwards
message(whitelist, subscribed, msg) ==
  IF ~msg.ok THEN subscribed
  ELSE LET opened == IF msg.action = "opendoc" /\ msg.resource \in whitelist
                       THEN subscribed \cup {msg.resource} ELSE subscribed
       IN  IF msg.action = "closedoc" THEN opened \ {msg.resource} ELSE opened

RECURSIVE Fill(_, _)
Fill(n, v) == IF n = 0 THEN <<>> ELSE Append(Fill(n - 1, v), v)

\* The collection a GET of /api/todos may find when the program starts.
InitTodos == { {}, {[id |-> "t0", done |-> 0]} }
TodoIds == <<"t1", "t2", "t3">>

TodoEvent(action, id, item, fields) ==
  [resource |-> "todos", action |-> action, id |-> id, item |-> item,
   fields |-> fields]

\* server.publish(topic, msg): to every connection subscribed to the topic
Publish(ev) ==
  down' = [c \in Conns |->
             IF ev.resource \in subs[c] THEN Append(down[c], ev) ELSE down[c]]

\* A client sends a frame of its own making.
SendFrame(c, f) ==
  /\ Len(up[c]) < MaxFrames
  /\ up' = [up EXCEPT ![c] = Append(@, f)]
  /\ UNCHANGED <<bVars, aVars, tVars, sVars, oVars, topics, subs, down, todos, nMut,
                 client>>

\* The server gets the next frame of connection c.
WsMessage(c) ==
  /\ up[c] # <<>>
  /\ subs' = [subs EXCEPT ![c] = message(topics, @, Head(up[c]))]
  /\ up' = [up EXCEPT ![c] = Tail(@)]
  /\ UNCHANGED <<bVars, aVars, tVars, sVars, oVars, topics, down, todos, nMut,
                 client>>

\* POST /api/todos has written the new item and published it.
TodoCreate ==
  /\ nMut < MaxMutations
  /\ LET item == [id |-> TodoIds[nMut + 1], done |-> 0]
     IN  /\ todos' = todos \cup {item}
         /\ Publish(TodoEvent("create", item.id, item, <<>>))
  /\ nMut' = nMut + 1
  /\ UNCHANGED <<bVars, aVars, tVars, sVars, oVars, topics, subs, up, client>>

\* PUT /api/todos/:id has written the fields and published them.
TodoUpdate(it) ==
  /\ nMut < MaxMutations
  /\ it \in todos
  /\ LET fields == [done |-> 1 - it.done]
     IN  /\ todos' = (todos \ {it}) \cup {[it EXCEPT !.done = fields.done]}
         /\ Publish(TodoEvent("update", it.id, it, fields))
  /\ nMut' = nMut + 1
  /\ UNCHANGED <<bVars, aVars, tVars, sVars, oVars, topics, subs, up, client>>

\* DELETE /api/todos/:id has removed the item and published its id.
TodoDelete(it) ==
  /\ nMut < MaxMutations
  /\ it \in todos
  /\ todos' = todos \ {it}
  /\ Publish(TodoEvent("delete", it.id, it, <<>>))
  /\ nMut' = nMut + 1
  /\ UNCHANGED <<bVars, aVars, tVars, sVars, oVars, topics, subs, up, client>>

\* connectTodos(ws): loadTodos() sends GET /api/todos.
ConnectTodos ==
  /\ client.pc = "init"
  /\ client' = [client EXCEPT !.pc = "fetching"]
  /\ UNCHANGED <<bVars, aVars, tVars, sVars, oVars, topics, subs, up, down, todos,
                 nMut>>

\* The server answers the GET with the collection as it is.
ServeList ==
  /\ client.pc = "fetching"
  /\ client' = [client EXCEPT !.pc = "responding", !.resp = todos]
  /\ UNCHANGED <<bVars, aVars, tVars, sVars, oVars, topics, subs, up, down, todos,
                 nMut>>

\* loadTodos().then: the map is set from the items, opendoc is sent and the
\* message listener is added.
Loaded ==
  /\ client.pc = "responding"
  /\ client' = [client EXCEPT !.pc = "live", !.map = client.resp,
                              !.resp = {}, !.listening = TRUE]
  /\ up' = [up EXCEPT ![1] = Append(@, Frame("opendoc", "todos"))]
  /\ UNCHANGED <<bVars, aVars, tVars, sVars, oVars, topics, subs, down, todos, nMut>>

\* dispose(): the listener is removed and closedoc is sent.
Dispose ==
  /\ client.pc # "init"
  /\ ~client.disposed
  /\ client' = [client EXCEPT !.disposed = TRUE, !.listening = FALSE]
  /\ up' = [up EXCEPT ![1] = Append(@, Frame("closedoc", "todos"))]
  /\ UNCHANGED <<bVars, aVars, tVars, sVars, oVars, topics, subs, down, todos, nMut>>

\* onMessage(e): the map after the event
onMessage(map, msg) ==
  IF msg.resource # "todos" THEN map
  ELSE CASE msg.action = "create" ->
              {x \in map : x.id # msg.item.id} \cup {msg.item}
         [] msg.action = "update" ->
              {IF x.id = msg.id THEN [x EXCEPT !.done = msg.fields.done] ELSE x :
                 x \in map}
         [] msg.action = "delete" -> {x \in map : x.id # msg.id}

\* The next event reaches the client of connection c; the listener of
\* connectTodos, if it is there, is on connection 1.
WsDeliver(c) ==
  /\ down[c] # <<>>
  /\ down' = [down EXCEPT ![c] = Tail(@)]
  /\ client' = IF c = 1 /\ client.listening
                 THEN [client EXCEPT !.map = onMessage(@, Head(down[c]))]
                 ELSE client
  /\ UNCHANGED <<bVars, aVars, tVars, sVars, oVars, topics, subs, up, todos, nMut>>

LiveInit ==
  /\ QuietBase
  /\ eng = NewEngine(DbFile([alpha |-> NoTable, beta |-> NoTable]))
  /\ NoClasses
  /\ NoTokens
  /\ NoObjects
  /\ NoHandles
  /\ NoSocket
  /\ topics = NotifyTopics(ResourceClasses)
  /\ subs = Fill(Cardinality(Conns), {})
  /\ up = Fill(Cardinality(Conns), <<>>)
  /\ down = Fill(Cardinality(Conns), <<>>)
  /\ todos \in InitTodos
  /\ nMut = 0
  /\ client = [pc |-> "init", listening |-> FALSE, disposed |-> FALSE,
               map |-> {}, resp |-> {}]

LiveNext ==
  \/ \E c \in Conns, f \in Frames : SendFrame(c, f)
  \/ \E c \in Conns : WsMessage(c)
  \/ TodoCreate
  \/ \E it \in todos : TodoUpdate(it)
  \/ \E it \in todos : TodoDelete(it)
  \/ ConnectTodos
  \/ ServeList
  \/ Loaded
  \/ Dispose
  \/ \E c \in Conns : WsDeliver(c)

LiveSpec == LiveInit /\ [][LiveNext]_vars

\* ------------------------------------------------------------ token store

MaxValidates == 2

\* The token create() stored: unused, good until the clock passes expiresAt.
\* Its table, _tokens, is the table alpha of the engine.
Token == [id |-> "a", userId |-> "u1", role |-> "guest", used |-> 0,
          expiresAt |-> 0]

NewValidate(id, r, after) ==
  [id |-> id, pc |-> "found",
   token |-> IF ~r.threw /\ r.val.t = "item" THEN r.val.item ELSE NoItem,
   threw |-> r.threw, t |-> 0, awaits |-> "", result |-> "",
   after |-> after]

\* The validate calls that have returned { userId, role }.
Accepted == {v \in 1..Len(vals) : vals[v].result = "ok"}

\* tokens.validate(tokenId) is called: store.findById runs in the call, the
\* rest of validate in a later microtask.
Validate(id) ==
  /\ running
  /\ Len(vals) < MaxValidates
  /\ LET r == OpFindById(eng, "alpha", id)
     IN  /\ eng' = r.e
         /\ vals' = Append(vals, NewValidate(id, r, Accepted))
  /\ micro' = Append(micro, ResumeJob(Len(vals) + 1))
  /\ UNCHANGED <<queue, draining, fut, inflight, reactions, kVars, dVars,
                 cVars, running, staleStmtRuns, cfg, mem, reqs, published,
                 aVars, lVars, sVars, oVars, clock>>

Returns(v, result, m) ==
  /\ vals' = [vals EXCEPT ![v].pc = "done", ![v].result = result]
  /\ micro' = m
  /\ UNCHANGED <<queue, fut, draining, inflight, reactions, kVars>>

Awaits(v, op, m) ==
  /\ vals' = [vals EXCEPT ![v].pc = "awaiting", ![v].awaits = op.kind,
                          ![v].t = Len(fut) + 1]
  /\ EnqueueOn(m, op)

\* validate from an await on, up to its next await or its return
ValidateFrom(v, m) ==
  LET c == vals[v]
  IN  CASE c.pc = "found" /\ c.threw -> Returns(v, "error", m)
        [] c.pc = "found" /\ ~c.threw ->
             IF c.token = NoItem \/ c.token.used # 0
               THEN Returns(v, "null", m)
             ELSE IF clock > c.token.expiresAt
               THEN Awaits(v, [kind |-> "remove", tb |-> "alpha", id |-> c.id],
                           m)
             ELSE Awaits(v, [kind |-> "update", tb |-> "alpha", id |-> c.id,
                             fields |-> [used |-> 1]], m)
        [] c.pc = "settled" ->
             Returns(v, IF c.threw THEN "error"
                        ELSE IF c.awaits = "remove" THEN "null" ELSE "ok", m)

\* A validate call goes on after its await.
ValidateResume ==
  /\ LoopFree
  /\ Head(micro).kind = "resume"
  /\ ValidateFrom(Head(micro).t, Tail(micro))
  /\ UNCHANGED <<dVars, cVars, running, eng, staleStmtRuns, cfg, mem, reqs,
                 published, aVars, lVars, sVars, oVars, clock>>

\* The promise store.update or store.remove returned settles; the validate
\* call awaiting it goes on in a later microtask.
ValidateSettled ==
  /\ LoopFree
  /\ Head(micro).kind = "settle"
  /\ LET t == Head(micro).t
         x == CHOOSE y \in inflight : y.t = t
         v == CHOOSE k \in 1..Len(vals) : vals[k].t = t
     IN  /\ settled' = Append(settled, t)
         /\ inflight' = inflight \ {x}
         /\ vals' = [vals EXCEPT ![v].pc = "settled", ![v].threw = x.threw]
         /\ micro' = Append(Tail(micro), ResumeJob(v))
  /\ UNCHANGED <<queue, draining, fut, reactions, kVars, running, dVars, snaps,
                 eng, staleStmtRuns, cfg, mem, reqs, published, aVars, lVars,
                 sVars, oVars, clock>>

\* Time passes: the token is past its expiresAt from now on.
Tick ==
  /\ clock = 0
  /\ clock' = 1
  /\ UNCHANGED <<bVars, aVars, lVars, sVars, oVars, vals>>

TokenInit ==
  /\ QuietBase
  /\ eng = MakeStore(
             NewEngine(DbFile([alpha |-> [exists |-> TRUE,
                                          rows |-> <<Row(Token)>>],
                               beta |-> NoTable])),
             "alpha")
  /\ NoClasses
  /\ NoLive
  /\ NoTokens
  /\ NoObjects
  /\ NoHandles
  /\ NoSocket

TokenNext ==
  \/ StartMacrotask
  \/ ClientReturn
  \/ \E id \in Ids : Validate(id)
  \/ ValidateResume
  \/ RunAdopt
  \/ ValidateSettled
  \/ DrainEnter
  \/ DrainWhile
  \/ DrainFor
  \/ DrainOp
  \/ Tick

TokenSpec == TokenInit /\ [][TokenNext]_vars

\* ------------------------------------------------- what read() hands out

MaxArrays == 3
MaxHeap == 3
MaxWrites == 1

\* The entities the array at address a holds.
RECURSIVE Deref(_, _)
Deref(h, addrs) ==
  IF addrs = <<>> THEN <<>>
  ELSE <<h[Head(addrs)]>> \o Deref(h, Tail(addrs))

\* The addresses n + 1 .. n + k
RECURSIVE Fresh(_, _)
Fresh(n, k) == IF k = 0 THEN <<>> ELSE Append(Fresh(n, k - 1), n + k)

\* JSON.stringify of an array of entities: the texts of its entities in order.
RECURSIVE StringifyAll(_)
StringifyAll(its) ==
  IF its = <<>> THEN <<>>
  ELSE <<Stringify(Head(its))>> \o StringifyAll(Tail(its))

\* JSON.parse of such a text.
RECURSIVE ParseAll(_)
ParseAll(text) ==
  IF text = <<>> THEN <<>>
  ELSE <<Parse(Head(text))>> \o ParseAll(Tail(text))

\* jsonFile.read(): the parsed file; [] when there is no file to parse
JsonItems == IF file.exists THEN ParseAll(file.text) ELSE <<>>

\* What the items of a read() are, were it called now.
ReadValue ==
  CASE store = "memory" -> Deref(heap, arrays[held])
    [] store = "json" -> JsonItems
    [] OTHER -> LET rd == OpRead(eng, "alpha").val.items
                IN  Deref(rd, Fresh(0, Len(rd)))

\* memoryStore.read(): [...items], a new array of the same objects
MemoryRead ==
  /\ store = "memory"
  /\ Len(arrays) < MaxArrays
  /\ arrays' = Append(arrays, arrays[held])
  /\ taken' = Append(taken, Len(arrays) + 1)
  /\ UNCHANGED <<bVars, aVars, lVars, tVars, oVars, store, heap, held, file, wrote>>

\* jsonFile.read(): a new array of the objects the parse of the file makes
JsonRead ==
  /\ store = "json"
  /\ Len(arrays) < MaxArrays
  /\ Len(heap) + Len(JsonItems) <= MaxHeap
  /\ heap' = heap \o JsonItems
  /\ arrays' = Append(arrays, Fresh(Len(heap), Len(JsonItems)))
  /\ taken' = Append(taken, Len(arrays) + 1)
  /\ UNCHANGED <<bVars, aVars, lVars, tVars, oVars, store, held, file, wrote>>

\* sqliteStore.read(): a new array of the objects JSON.parse makes of the rows
SqliteRead ==
  /\ store = "sqlite"
  /\ Len(arrays) < MaxArrays
  /\ LET rd == OpRead(eng, "alpha")
         parsed == Deref(rd.val.items, Fresh(0, Len(rd.val.items)))
     IN  /\ ~rd.threw
         /\ Len(heap) + Len(parsed) <= MaxHeap
         /\ eng' = rd.e
         /\ heap' = heap \o parsed
         /\ arrays' = Append(arrays, Fresh(Len(heap), Len(parsed)))
  /\ taken' = Append(taken, Len(arrays) + 1)
  /\ UNCHANGED <<queue, draining, micro, running, dpc, batch, bi, rpc,
                 staleStmtRuns, fut, inflight, reactions, nRestores, cap,
                 started, executing, settled, snaps, batchPre, opPre, cfg, mem,
                 reqs, published, aVars, lVars, tVars, oVars, store, held, file,
                 wrote>>

\* The write call after this one, of these items, with this outcome.
WriteCall(its, ok) == [n |-> wrote.n + 1, ok |-> ok, items |-> its]

\* (variant: write adds the new items to the ones the store has)
MemoryWriteAppends(g) ==
  /\ store = "memory"
  /\ Len(arrays) < MaxArrays
  /\ wrote.n < MaxWrites
  /\ arrays' = Append(arrays, arrays[held] \o arrays[taken[g]])
  /\ held' = Len(arrays) + 1
  /\ wrote' = WriteCall(Deref(heap, arrays[taken[g]]), TRUE)
  /\ UNCHANGED <<bVars, aVars, lVars, tVars, oVars, store, heap, taken, file>>

\* memoryStore.write(next) with an array a read returned: items = [...next]
MemoryWrite(g) ==
  /\ store = "memory"
  /\ Len(arrays) < MaxArrays
  /\ wrote.n < MaxWrites
  /\ arrays' = Append(arrays, arrays[taken[g]])
  /\ held' = Len(arrays) + 1
  /\ wrote' = WriteCall(Deref(heap, arrays[taken[g]]), TRUE)
  /\ UNCHANGED <<bVars, aVars, lVars, tVars, oVars, store, heap, taken, file>>

\* jsonFile.write(items): Bun.write(path, JSON.stringify(items, null, 2))
JsonWrite(g) ==
  /\ store = "json"
  /\ wrote.n < MaxWrites
  /\ LET its == Deref(heap, arrays[taken[g]])
     IN  /\ file' = [exists |-> TRUE, text |-> StringifyAll(its)]
         /\ wrote' = WriteCall(its, TRUE)
  /\ UNCHANGED <<bVars, aVars, lVars, tVars, oVars, store, heap, arrays, held,
                 taken>>

\* await store.write(items) on the SQLite store by a caller that has no other
\* call under way: the queue holds this task alone and drain runs its op.
SqliteWrite(g) ==
  /\ store = "sqlite"
  /\ wrote.n < MaxWrites
  /\ LET its == Deref(heap, arrays[taken[g]])
         op == OpWrite(eng, "alpha", its)
     IN  /\ eng' = op.e
         /\ wrote' = WriteCall(its, ~op.threw)
  /\ UNCHANGED <<queue, draining, micro, running, dpc, batch, bi, rpc,
                 staleStmtRuns, fut, inflight, reactions, nRestores, cap,
                 started, executing, settled, snaps, batchPre, opPre, cfg, mem,
                 reqs, published, aVars, lVars, tVars, oVars, store, heap, arrays,
                 held, taken, file>>

\* The caller pushes a new entity on an array read() returned.
CallerPush(g) ==
  /\ Len(heap) < MaxHeap
  /\ heap' = Append(heap, Item("b", 1))
  /\ arrays' = [arrays EXCEPT ![taken[g]] = Append(@, Len(heap) + 1)]
  /\ UNCHANGED <<bVars, aVars, lVars, tVars, oVars, store, held, taken, file, wrote>>

\* The caller removes the last entity of an array read() returned.
CallerPop(g) ==
  /\ arrays[taken[g]] # <<>>
  /\ arrays' = [arrays EXCEPT ![taken[g]] = SubSeq(@, 1, Len(@) - 1)]
  /\ UNCHANGED <<bVars, aVars, lVars, tVars, oVars, store, heap, held, taken, file,
                 wrote>>

\* The caller assigns to a field of an entity of an array read() returned.
CallerAlter(g, i) ==
  /\ i \in 1..Len(arrays[taken[g]])
  /\ heap[arrays[taken[g]][i]].v # 2
  /\ heap' = [heap EXCEPT ![arrays[taken[g]][i]].v = 2]
  /\ UNCHANGED <<bVars, aVars, lVars, tVars, oVars, store, arrays, held, taken, file,
                 wrote>>

\* memoryStore([{ id: "a", v: 0 }]), sqliteStore on a table with that row, or
\* jsonFile on a path with no file or with a file of that entity.
SnapInit ==
  /\ QuietBase
  /\ NoClasses
  /\ NoLive
  /\ NoTokens
  /\ NoHandles
  /\ NoSocket
  /\ store \in {"memory", "json", "sqlite"}
  /\ eng = MakeStore(
             NewEngine(DbFile([alpha |-> [exists |-> TRUE,
                                          rows |-> IF store = "sqlite"
                                                     THEN <<Row(Item("a", 0))>>
                                                     ELSE <<>>],
                               beta |-> NoTable])),
             "alpha")
  /\ heap = IF store = "memory" THEN <<Item("a", 0)>> ELSE <<>>
  /\ arrays = IF store = "memory" THEN << <<1>> >> ELSE <<>>
  /\ held = IF store = "memory" THEN 1 ELSE 0
  /\ taken = <<>>
  /\ file \in IF store = "json"
                THEN {NoFile,
                      [exists |-> TRUE, text |-> <<Stringify(Item("a", 0))>>]}
                ELSE {NoFile}
  /\ wrote = NoWrite

SnapNext ==
  \/ MemoryRead
  \/ JsonRead
  \/ SqliteRead
  \/ \E g \in 1..Len(taken) : MemoryWrite(g)
  \/ \E g \in 1..Len(taken) : JsonWrite(g)
  \/ \E g \in 1..Len(taken) : SqliteWrite(g)
  \/ \E g \in 1..Len(taken) : CallerPush(g)
  \/ \E g \in 1..Len(taken) : CallerPop(g)
  \/ \E g \in 1..Len(taken), i \in 1..MaxHeap : CallerAlter(g, i)

SnapSpec == SnapInit /\ [][SnapNext]_vars

\* ------------------------------------------------ store handle factories

MaxHandles == 2

\* Table names a caller may pass, as their characters.
TableNames ==
  { <<"i", "t">>, <<"_", "1">>, <<>>, <<"1", "t">>, <<"t", ";">>,
    <<"d", " ", "t">> }

Letters == {"i", "t", "d"}
Digits == {"1"}

\* /^[a-zA-Z_]\w*$/.test(table)
ValidName(table) ==
  /\ Len(table) >= 1
  /\ table[1] \in Letters \cup {"_"}
  /\ \A i \in 2..Len(table) : table[i] \in Letters \cup Digits \cup {"_"}

\* provide("db", createDatabase(path))
ProvideDb ==
  /\ ~provided
  /\ provided' = TRUE
  /\ UNCHANGED <<bVars, aVars, lVars, tVars, sVars, rVars, handles, prepared>>

\* createDatabase(path).sqliteStore(table): the name is tested, then prepare()
\* builds the statements and the handle is returned.
BoundStore(table) ==
  /\ Len(handles) < MaxHandles
  /\ ValidName(table)
  /\ prepared' = prepared \cup {table}
  /\ handles' = Append(handles, [kind |-> "bound", table |-> table,
                                 inner |-> TRUE, threw |-> FALSE])
  /\ UNCHANGED <<bVars, aVars, lVars, tVars, sVars, rVars, provided>>

\* sqliteStore(table), the lazy factory: returns the wrapper, inner is null.
LazyStore(table) ==
  /\ Len(handles) < MaxHandles
  /\ handles' = Append(handles, [kind |-> "lazy", table |-> table,
                                 inner |-> FALSE, threw |-> FALSE])
  /\ UNCHANGED <<bVars, aVars, lVars, tVars, sVars, rVars, provided, prepared>>

\* A method of a lazy wrapper is called for the first time: store() resolves
\* inject("db") and calls its sqliteStore(table). When inject or the name test
\* throws, the promise of the method is rejected and inner stays null.
LazyUse(h) ==
  /\ handles[h].kind = "lazy"
  /\ ~handles[h].inner
  /\ ~handles[h].threw
  /\ IF provided /\ ValidName(handles[h].table)
       THEN /\ prepared' = prepared \cup {handles[h].table}
            /\ handles' = [handles EXCEPT ![h].inner = TRUE]
       ELSE /\ prepared' = prepared
            /\ handles' = [handles EXCEPT ![h].threw = TRUE]
  /\ UNCHANGED <<bVars, aVars, lVars, tVars, sVars, rVars, provided>>

NameInit ==
  /\ QuietBase
  /\ eng = NewEngine(DbFile([alpha |-> NoTable, beta |-> NoTable]))
  /\ NoClasses
  /\ NoLive
  /\ NoTokens
  /\ NoObjects
  /\ NoSocket
  /\ provided = FALSE
  /\ handles = <<>>
  /\ prepared = {}

NameNext ==
  \/ ProvideDb
  \/ \E table \in TableNames : BoundStore(table)
  \/ \E table \in TableNames : LazyStore(table)
  \/ \E h \in 1..Len(handles) : LazyUse(h)

NameSpec == NameInit /\ [][NameNext]_vars

\* ------------------- the reconnecting WebSocket (src/lib/reconnecting-ws.ts)

\* Frames sent on one connection the server has not read yet.
MaxWire == 2

\* Set.prototype.add: a new value goes last, a value the set holds stays
SetAdd(s, v) == IF \E i \in 1..Len(s) : s[i] = v THEN s ELSE Append(s, v)

\* Set.prototype.delete
SetDelete(s, v) == SelectSeq(s, LAMBDA x : x # v)

\* try { msg = JSON.parse(data); add on opendoc; delete on closedoc } catch {}
Recorded(s, msg) ==
  IF ~msg.ok THEN s
  ELSE LET opened == IF msg.action = "opendoc" THEN SetAdd(s, msg.resource)
                     ELSE s
       IN  IF msg.action = "closedoc" THEN SetDelete(opened, msg.resource)
           ELSE opened

\* for (const resource of subscriptions)
\*   ws.send(JSON.stringify({ action: "opendoc", resource }))
RECURSIVE Resubscribe(_)
Resubscribe(s) ==
  IF s = <<>> THEN <<>>
  ELSE <<Frame("opendoc", Head(s))>> \o Resubscribe(Tail(s))

\* Math.min(backoff * 2, 30_000)
NextBackoff(b) == IF b * 2 < MaxBackoff THEN b * 2 ELSE MaxBackoff

\* The topics opened and not closed since, after one more frame.
Wanted(w, msg) ==
  IF ~msg.ok THEN w
  ELSE IF msg.action = "opendoc" THEN w \cup {msg.resource}
  ELSE IF msg.action = "closedoc" THEN w \ {msg.resource}
  ELSE w

Late(l, msg, open) ==
  IF msg.ok /\ msg.action \in {"opendoc", "closedoc"}
    THEN IF open THEN l \ {msg.resource} ELSE l \cup {msg.resource}
    ELSE l

\* (variant: a frame is recorded only when it can be sent)
ProxySendOnlyOpen(f) ==
  /\ sock # "none"
  /\ sock = "open" => Len(wire) < MaxWire
  /\ subscriptions' = IF sock = "open" THEN Recorded(subscriptions, f)
                      ELSE subscriptions
  /\ wire' = IF sock = "open" THEN Append(wire, f) ELSE wire
  /\ wanted' = Wanted(wanted, f)
  /\ late' = Late(late, f, sock = "open")
  /\ UNCHANGED <<bVars, aVars, lVars, tVars, sVars, nVars, backoff, sock, timer,
                 served>>

\* proxy.send(data): the frame is recorded, and sent if the socket is open.
ProxySend(f) ==
  /\ sock # "none"
  /\ sock = "open" => Len(wire) < MaxWire
  /\ subscriptions' = Recorded(subscriptions, f)
  /\ wire' = IF sock = "open" THEN Append(wire, f) ELSE wire
  /\ wanted' = Wanted(wanted, f)
  /\ late' = Late(late, f, sock = "open")
  /\ UNCHANGED <<bVars, aVars, lVars, tVars, sVars, nVars, backoff, sock, timer,
                 served>>

\* The "open" listener: the server took the connection, which has no
\* subscription yet.
WsOpen ==
  /\ sock = "connecting"
  /\ sock' = "open"
  /\ backoff' = InitialBackoff
  /\ wire' = Resubscribe(subscriptions)
  /\ served' = {}
  /\ UNCHANGED <<bVars, aVars, lVars, tVars, sVars, nVars, subscriptions, timer,
                 wanted, late>>

\* The "close" listener: the connection ended or could not be made; what was
\* on its way is lost and the server drops the connection's subscriptions.
WsClose ==
  /\ sock \in {"connecting", "open"}
  /\ sock' = "closed"
  /\ backoff' = NextBackoff(backoff)
  /\ timer' = [armed |-> TRUE, delay |-> NextBackoff(backoff)]
  /\ wire' = <<>>
  /\ served' = {}
  /\ UNCHANGED <<bVars, aVars, lVars, tVars, sVars, nVars, subscriptions, wanted,
                 late>>

\* The timer fires: connect(), ws = new WebSocket(url).
Connect ==
  /\ timer.armed
  /\ timer' = [timer EXCEPT !.armed = FALSE]
  /\ sock' = "connecting"
  /\ UNCHANGED <<bVars, aVars, lVars, tVars, sVars, nVars, subscriptions, backoff,
                 wire, served, wanted, late>>

\* websocket.message(ws, raw) on the server, for the next frame.
ServerMessage ==
  /\ sock = "open"
  /\ wire # <<>>
  /\ served' = message(NotifyTopics(ResourceClasses), served, Head(wire))
  /\ wire' = Tail(wire)
  /\ UNCHANGED <<bVars, aVars, lVars, tVars, sVars, nVars, subscriptions, backoff,
                 sock, timer, wanted, late>>

\* reconnectingWebSocket(url) has returned: connect() was called once.
WsInit ==
  /\ QuietBase
  /\ eng = NewEngine(DbFile([alpha |-> NoTable, beta |-> NoTable]))
  /\ NoClasses
  /\ NoLive
  /\ NoTokens
  /\ NoObjects
  /\ NoHandles
  /\ subscriptions = <<>>
  /\ backoff = InitialBackoff
  /\ sock = "connecting"
  /\ timer = [armed |-> FALSE, delay |-> 0]
  /\ wire = <<>>
  /\ served = {}
  /\ wanted = {}
  /\ late = {}

WsNext ==
  \/ \E f \in Frames : ProxySend(f)
  \/ WsOpen
  \/ WsClose
  \/ Connect
  \/ ServerMessage

WsSpec == WsInit /\ [][WsNext]_vars

\* ------------------------------------------------------------ properties

\* The ops of the tasks ts, each run to its end on the engine the one before
\* left: the engine at the end and what each op returned or threw.
RECURSIVE RunSeq(_, _)
RunSeq(e, ts) ==
  IF ts = <<>> THEN [e |-> e, out |-> <<>>]
  ELSE LET r == ExecOp(e, Head(ts).op)
           rest == RunSeq(r.e, Tail(ts))
       IN  [e |-> rest.e,
            out |-> <<[threw |-> r.threw, val |-> r.val]>> \o rest.out]

\* The tasks of the set S in the order they were enqueued (ids count enqueue
\* calls).
RECURSIVE InOrder(_)
InOrder(S) ==
  IF S = {} THEN <<>>
  ELSE LET m == CHOOSE x \in S : \A y \in S : x.id <= y.id
       IN  <<m>> \o InOrder(S \ {m})

Range(f) == {f[i] : i \in DOMAIN f}

\* C1: tasks begin in the order they were enqueued: the i-th task to begin is
\* the i-th task enqueued, so of any two tasks the one enqueued earlier begins
\* first.
C1_FifoStart == \A i \in 1..Len(started) : started[i] = i

\* Two tasks of one batch have run and a third waits in the queue behind them.
C1_Witness ==
  /\ dpc = "for"
  /\ bi = 3
  /\ Len(started) >= 2
  /\ queue # <<>>

\* C2: at most one task's op is executing at any moment, and it is the task
\* the drain loop stands at; this holds while further drains are scheduled and
\* while tasks enqueued during the drain wait in the queue.
C2_OneAtATime ==
  /\ Cardinality(executing) <= 1
  /\ executing # {} => dpc = "op" /\ executing = {batch[bi].id}
  /\ dpc # "op" => executing = {}

\* An op runs while a task enqueued during this drain waits and another drain
\* is scheduled.
C2_Witness ==
  /\ executing # {}
  /\ queue # <<>>
  /\ \E k \in 1..Len(micro) : micro[k] = DrainJob

\* C3: a task whose op throws rejects its own promise and nothing else: at
\* every turn of the drain loop each task of the batch already run is
\* rejected exactly if its op threw when run in turn, fulfilled with its own
\* result otherwise, and the tasks behind it are still pending; and when no
\* drain runs or is scheduled the queue is empty and every promise is settled.
C3_ThrowIsLocal ==
  /\ dpc = "for" =>
       LET seq == RunSeq(batchPre[1], SubSeq(batch, 1, bi - 1))
       IN  \A i \in 1..Len(batch) :
             LET t == batch[i].id IN
             IF i < bi
               THEN /\ fut[t] = IF seq.out[i].threw THEN "rejected"
                                ELSE "fulfilled"
                    /\ Wrapped(batch[i].op.kind) =>
                         [t |-> t, threw |-> seq.out[i].threw,
                          val |-> seq.out[i].val] \in inflight
               ELSE fut[t] = "pending"
  /\ (dpc = "idle" /\ \A k \in 1..Len(micro) : micro[k] # DrainJob) =>
       /\ queue = <<>>
       /\ \A t \in 1..Len(fut) : fut[t] # "pending"

\* A batch of three has run: the second task's op threw, the first and the
\* third were fulfilled.
C3_Witness ==
  /\ dpc = "for"
  /\ Len(batch) = 3
  /\ bi = 4
  /\ fut[batch[1].id] = "fulfilled"
  /\ fut[batch[2].id] = "rejected"
  /\ fut[batch[3].id] = "fulfilled"

\* C4: every enqueued task is eventually begun and its promise settled, whether
\* it was enqueued while the queue was idle or during a drain; and whenever no
\* drain runs the flag is clear, so the drain a later enqueue schedules does
\* run the task.
C4_EventuallySettled ==
  /\ \A t \in 1..MaxLiveTasks :
       (Len(fut) >= t) ~> (Len(started) >= t /\ fut[t] # "pending")
  /\ [](dpc = "idle" => ~draining)

\* A drain has ended (a store call's promise settled, which takes an idle
\* loop) and a later drain has run and settled its first task.
C4_Witness ==
  /\ dpc = "for"
  /\ bi > 1
  /\ settled # <<>>
  /\ fut[batch[1].id] # "pending"

\* C5: store mutations submitted together take effect one after the other in
\* the order submitted: when a batch has run, the engine is what running the
\* ops of its tasks one by one in enqueue order leaves; and the promises the
\* callers hold settle in the order of the calls.
C5_Sequential ==
  /\ (dpc = "for" /\ bi > Len(batch)) =>
       eng = RunSeq(batchPre[1], InOrder(Range(batch))).e
  /\ \A i, j \in 1..Len(settled) : i < j => settled[i] < settled[j]

\* A batch of at least two fulfilled mutations of table alpha has run, and
\* the other order would have left something else.
C5_Witness ==
  /\ dpc = "for"
  /\ bi > Len(batch)
  /\ Len(batch) >= 2
  /\ \A i \in 1..Len(batch) :
       /\ Wrapped(batch[i].op.kind)
       /\ batch[i].op.tb = "alpha"
       /\ fut[batch[i].id] = "fulfilled"
  /\ RunSeq(batchPre[1], Reverse(batch)).e # eng

\* The stages of the running restore op, against the engine it began on.
RClosed == ~eng.conns[opPre[1].db].open
RUnlinked == opPre[1].wal /\ ~eng.wal
RWritten == Len(eng.inodes) > Len(opPre[1].inodes)
RRenamed == eng.path # opPre[1].path
RReopened == eng.db # opPre[1].db

\* C6: restore closes the connection, then deletes the WAL files, then writes
\* the snapshot to a temporary file, then renames it over the database file,
\* then reopens, and increments the generation only as its last statement;
\* and between tasks no table operation would run statements of a connection
\* opened by a restore while the generation is still the one it was opened
\* under.
C6_RestoreOrder ==
  /\ (dpc = "op" /\ rpc > 0) =>
       /\ eng.generation = opPre[1].generation
       /\ RReopened => RRenamed /\ eng.tmp = 0
       /\ RRenamed => RWritten /\ FileOf(eng, eng.db) \in {batch[bi].op.data,
                                                          FileOf(opPre[1], opPre[1].db)}
       /\ RWritten => RClosed /\ (~eng.wal \/ RReopened)
       /\ RUnlinked => RClosed
  /\ rpc = 0 =>
       \A tb \in Tables :
         (eng.stores[tb].made /\ eng.db > 1
            /\ eng.generation = Db(eng).openedAt) =>
           LET p == Prepare(eng, tb)
           IN  p.threw \/ p.e.stores[tb].stmts # eng.db

\* A restore of a backup stands at its last statement, the file reopened, with
\* a store handle made.
C6_Witness ==
  /\ dpc = "op"
  /\ rpc = Len(RestoreOrder)
  /\ RReopened
  /\ \E tb \in Tables : eng.stores[tb].made

\* C7: every table operation prepares first, so after one that did not throw
\* the table's gen is the engine's generation; and between tasks a table
\* whose gen equals the engine's generation holds statements of the
\* connection db holds now.
C7_HandlesCurrent ==
  rpc = 0 =>
    \A tb \in Tables :
      /\ eng.stores[tb].made =>
           LET r == OpRead(eng, tb)
           IN  ~r.threw => r.e.stores[tb].gen = r.e.generation
      /\ (eng.stores[tb].made /\ eng.stores[tb].gen = eng.generation) =>
           eng.stores[tb].stmts = eng.db

\* C8: the generation changes only in the step in which a restore completes,
\* and then by exactly one: no other step of restore, no store operation, no
\* backup and no making of a table changes it.
C8_GenerationSteps ==
  [][eng'.generation # eng.generation =>
       /\ eng'.generation = eng.generation + 1
       /\ dpc = "op"
       /\ batch[bi].op.kind = "restore"
       /\ fut'[batch[bi].id] = "fulfilled"]_vars

\* A restore has completed and a store handle has prepared anew since.
C8_Witness ==
  /\ eng.generation = 1
  /\ \E tb \in Tables :
       eng.stores[tb].made /\ eng.stores[tb].gen = eng.generation

\* C9: when a backup's op has run, every task enqueued before it is settled,
\* and the snapshot is the image of the database after the ops of the tasks
\* enqueued before it in this batch were applied in order.
C9_BackupAfterWrites ==
  (dpc = "for" /\ bi > 1 /\ batch[bi - 1].op.kind = "backup"
     /\ fut[batch[bi - 1].id] = "fulfilled") =>
    LET b == batch[bi - 1].id
        before == {x \in Range(batch) : x.id < b}
        e == RunSeq(batchPre[1], InOrder(before)).e
    IN  /\ \A t \in 1..(b - 1) : fut[t] # "pending"
        /\ snaps = {FileOf(e, e.db)}

\* A backup has run behind a write of the same batch that changed the
\* database.
C9_Witness ==
  /\ dpc = "for"
  /\ bi > 2
  /\ batch[bi - 1].op.kind = "backup"
  /\ Wrapped(batch[bi - 2].op.kind)
  /\ fut[batch[bi - 1].id] = "fulfilled"
  /\ snaps # {FileOf(batchPre[1], batchPre[1].db)}

\* C10: right after a restore of a backup has completed the database holds
\* each table as the backup has it, and every store handle made before the
\* restore answers read, findById and every mutation as a handle made on a
\* database freshly opened on the backup does.
C10_RestoreRoundTrip ==
  (dpc = "for" /\ bi > 1 /\ batch[bi - 1].op.kind = "restore"
     /\ fut[batch[bi - 1].id] = "fulfilled") =>
    LET data == batch[bi - 1].op.data IN
    /\ FileOf(eng, eng.db) = data
    /\ \A tb \in Tables :
         eng.stores[tb].made =>
           LET fresh == MakeStore(NewEngine(data), tb) IN
           /\ ~OpRead(eng, tb).threw
           /\ OpRead(eng, tb).val = OpRead(fresh, tb).val
           /\ \A id \in Ids :
                /\ ~OpFindById(eng, tb, id).threw
                /\ OpFindById(eng, tb, id).val = OpFindById(fresh, tb, id).val
           /\ \A op \in {m \in MutationInputs : m.tb = tb} :
                LET r == ExecOp(eng, op)
                    f == ExecOp(fresh, op)
                IN  /\ r.threw = f.threw
                    /\ r.val = f.val
                    /\ FileOf(r.e, r.e.db) = FileOf(f.e, f.e.db)

\* A restore of a backup has completed on a database that writes had changed
\* since the backup, with a store handle made before.
C10_Witness ==
  /\ dpc = "for"
  /\ bi = 2
  /\ batch[1].op.kind = "restore"
  /\ fut[batch[1].id] = "fulfilled"
  /\ FileOf(batchPre[1], batchPre[1].db) # batch[1].op.data
  /\ \E tb \in Tables : batchPre[1].stores[tb].made

\* C13: an insert of an item whose id the table already holds fails: the
\* task's promise is rejected and the error is what the caller's await gets,
\* and every stored row, the one of that id included, is as it was before.
C13_DuplicateInsertRejected ==
  (dpc = "for" /\ bi > 1 /\ batch[bi - 1].op.kind = "insert") =>
    LET op == batch[bi - 1].op
        t == batch[bi - 1].id
        before == RunSeq(batchPre[1], SubSeq(batch, 1, bi - 2)).e
        p == Prepare(before, op.tb)
    IN  (/\ ~p.threw
         /\ StmtsRun(p.e, op.tb)
         /\ HasId(RowsOf(p.e, op.tb), op.item.id)) =>
          /\ fut[t] = "rejected"
          /\ \E x \in inflight : x.t = t /\ x.threw
          /\ eng.inodes = before.inodes

\* An insert of id a was rejected while the table holds a with other data than
\* the insert carried.
C13_Witness ==
  /\ dpc = "for" /\ bi > 1
  /\ batch[bi - 1].op.kind = "insert"
  /\ fut[batch[bi - 1].id] = "rejected"
  /\ LET op == batch[bi - 1].op
     IN  /\ StmtsRun(eng, op.tb)
         /\ eng.stores[op.tb].gen = eng.generation
         /\ HasId(RowsOf(eng, op.tb), op.item.id)
         /\ SqlGet(RowsOf(eng, op.tb), op.item.id).data # Stringify(op.item)

\* The rows of the resource's table.
AlphaRows == RowsOf(eng, "alpha")

\* The step in which the handler of request r reads the store.
Reads(r) ==
  /\ reqs'[r].pc = "read"
  /\ r > Len(reqs) \/ reqs[r].pc # "read"

\* C11: read and findById do not go through the write queue and see the table
\* as some prefix of the executed writes left it: a read runs only between ops
\* (never while one executes), returns the rows the table holds then and leaves
\* the queue and the table alone, whatever writes wait; the op of a
\* whole-collection write leaves either exactly its items (fulfilled) or the
\* rows as they were (rejected), never a cleared or partly filled table; and
\* findById answers with the entity read returns under that id.
C11_ReadsSeeWholeWrites ==
  /\ [][/\ (dpc = "op" /\ batch[bi].op.kind = "write") =>
            \/ /\ fut'[batch[bi].id] = "fulfilled"
               /\ AlphaRows' = RowsOfItems(batch[bi].op.items)
            \/ /\ fut'[batch[bi].id] = "rejected"
               /\ AlphaRows' = AlphaRows
         /\ \A r \in 1..Len(reqs') :
              (cfg.store = "sqlite" /\ Reads(r)) =>
                /\ dpc = "idle" /\ dpc' = "idle"
                /\ executing = {}
                /\ queue' = queue /\ fut' = fut
                /\ AlphaRows' = AlphaRows
                /\ RowsOfItems(reqs'[r].items) = AlphaRows]_vars
  /\ [](cfg.store = "sqlite" /\ dpc # "op" =>
          \A id \in Ids \cup {Uuids[1]} :
            LET items == OpRead(eng, "alpha").val.items
                found == OpFindById(eng, "alpha", id).val
            IN  IF FindIndex(items, id) = 0 THEN found.t = "null"
                ELSE found.t = "item"
                     /\ found.item = items[FindIndex(items, id)])

\* A handler has read the table while a write that was called before waits in
\* the queue.
C11_Witness ==
  /\ cfg.store = "sqlite"
  /\ queue # <<>>
  /\ \E r \in 1..Len(reqs) :
       /\ reqs[r].pc = "read"
       /\ \E k \in 1..Len(reqs) : reqs[k].pc = "write" /\ reqs[k].t = queue[1].id

UniqueIds(items) ==
  \A i, j \in 1..Len(items) : items[i].id = items[j].id => i = j

\* C12: whatever requests were handled, POSTs with an id of their own in the
\* body included, the collection of the memory store and the table of the
\* SQLite store hold no two entities with the same id.
C12_UniqueIds == UniqueIds(mem) /\ UniqueIds(AlphaRows)

\* The readonly field of each entity (by id) as it was at a creation: of the
\* entity the program started with, or of the item a POST made.
Created ==
  {<<InitEntity.id, InitEntity.c>>} \cup
  { <<reqs[r].item.id, reqs[r].item.c>> :
      r \in {k \in 1..Len(reqs) : reqs[k].kind = "POST"
                                   /\ reqs[k].item # NoItem} }

\* C14: whatever the bodies of the PUT requests handled so far, every stored
\* entity has in its readonly field (c) the value it was created with, and so
\* has the entity every PUT writes and returns.
C14_ReadonlyKept ==
  /\ \A i \in 1..Len(Stored) : <<Stored[i].id, Stored[i].c>> \in Created
  /\ \A r \in 1..Len(reqs) :
       (reqs[r].kind = "PUT" /\ reqs[r].item # NoItem) =>
         <<reqs[r].item.id, reqs[r].item.c>> \in Created

\* A PUT whose body carried a value for c was answered 200 and the entity is
\* stored with the c of its creation and the other field of that body.
C14_Witness ==
  \E r \in 1..Len(reqs) :
    /\ reqs[r].kind = "PUT"
    /\ reqs[r].status = 200
    /\ "c" \in DOMAIN reqs[r].body
    /\ \E i \in 1..Len(Stored) :
         /\ Stored[i].id = reqs[r].id
         /\ Stored[i].c = InitEntity.c
         /\ Stored[i].c # reqs[r].body.c

\* What request r published.
EventsOf(r) == SelectSeq(published, LAMBDA ev : ev.req = r)

Succeeded(r) == reqs[r].kind # "GET" /\ reqs[r].status \in {200, 201, 204}

\* C15: with a notify topic and a registered sink, a request answered 201, 200
\* or 204 has published exactly one event, on the topic of the resource: action
\* create with the created item, update with the id and the fields, delete
\* with the id; every other request has published none. A resource without a
\* topic publishes nothing.
C15_OneEventPerMutation ==
  /\ cfg.notify = "" => published = <<>>
  /\ (cfg.notify # "" /\ cfg.server) =>
       \A r \in 1..Len(reqs) :
         IF Succeeded(r)
           THEN /\ Len(EventsOf(r)) = 1
                /\ EventsOf(r)[1].topic = cfg.notify
                /\ EventsOf(r)[1].msg =
                     CASE reqs[r].kind = "POST" ->
                            [resource |-> cfg.notify, action |-> "create",
                             item |-> reqs[r].item]
                       [] reqs[r].kind = "PUT" ->
                            [resource |-> cfg.notify, action |-> "update",
                             id |-> reqs[r].id,
                             fields |->
                               [f \in DOMAIN reqs[r].body \ readonlyFields |->
                                  reqs[r].body[f]]]
                       [] reqs[r].kind = "DELETE" ->
                            [resource |-> cfg.notify, action |-> "delete",
                             id |-> reqs[r].id]
           ELSE EventsOf(r) = <<>>

\* A PUT and a DELETE were answered 200 and 204 and each has its event.
C15_Witness ==
  /\ cfg.notify # "" /\ cfg.server
  /\ Len(published) = 2
  /\ \E r, k \in 1..Len(reqs) :
       /\ reqs[r].kind = "PUT" /\ reqs[r].status = 200
       /\ reqs[k].kind = "DELETE" /\ reqs[k].status = 204

\* The store holds what the mutation behind the event ev made.
Reflects(ev) ==
  CASE ev.msg.action = "create" ->
         \E i \in 1..Len(Stored) : Stored[i] = ev.msg.item
    [] ev.msg.action = "update" ->
         \E i \in 1..Len(Stored) : Stored[i] = reqs[ev.req].item
    [] ev.msg.action = "delete" ->
         \A i \in 1..Len(Stored) : Stored[i].id # ev.msg.id

\* C16: at the moment an event is published the store holds the mutation it
\* reports (the created item, the updated entity, no entity of the deleted
\* id), and a request answered 400, 404 or with a storage error has published
\* nothing.
C16_PublishedAfterApplied ==
  /\ [][Len(published') > Len(published) =>
          Reflects(published'[Len(published')])]_vars
  /\ [](\A r \in 1..Len(reqs) :
          reqs[r].status \in {400, 404, 500} => EventsOf(r) = <<>>)

\* The second half of C16 alone: a request not answered 201, 200 or 204 has
\* published nothing.
C16_NoEventWithoutMutation ==
  \A r \in 1..Len(reqs) : ~Succeeded(r) => EventsOf(r) = <<>>

\* The place of task t among the tasks run (every op that began has ended when
\* a handler runs).
Completed(t) == CHOOSE k \in 1..Len(started) : started[k] = t

\* C17: the events of two mutations of the resource are published in the
\* order in which the write queue completed their writes, also when the
\* requests were in flight together.
C17_EventsInWriteOrder ==
  cfg.store = "sqlite" =>
    \A i, j \in 1..Len(published) :
      i < j => Completed(reqs[published[i].req].t)
                 < Completed(reqs[published[j].req].t)

\* Two events are out, of two requests that overlapped: the request received
\* first wrote second.
C17_Witness ==
  /\ cfg.store = "sqlite"
  /\ Len(published) = 2
  /\ Len(reqs) = 2
  /\ reqs[1].t = 2 /\ reqs[2].t = 1

\* The request that publishes in this step (0: none).
Publisher ==
  IF Len(published') > Len(published) THEN published'[Len(published')].req
  ELSE 0

\* C18 as stated: a mutation's event is emitted after its write resolved and
\* before the write queue starts the next queued task: when it is published
\* the task of its write is the last one begun.
C18_EventBeforeNextTask ==
  [][(cfg.store = "sqlite" /\ Publisher # 0) =>
       /\ fut[reqs[Publisher].t] = "fulfilled"
       /\ started[Len(started)] = reqs[Publisher].t]_vars

\* C18, amended: a mutation's event is emitted after its write resolved, when
\* no op is running, and before the event of any task the write queue ran
\* after it; the queue may have run the tasks queued behind it by then.
C18_EventAfterOwnWrite ==
  [][(cfg.store = "sqlite" /\ Publisher # 0) =>
       LET t == reqs[Publisher].t IN
       /\ fut[t] = "fulfilled"
       /\ \E k \in 1..Len(started) : started[k] = t
       /\ executing = {} /\ dpc = "idle"
       /\ \A r \in 1..Len(reqs) :
            (/\ reqs[r].t # 0
             /\ \E k \in 1..Len(started) : started[k] = reqs[r].t
             /\ Completed(reqs[r].t) > Completed(t)) =>
              EventsOf(r) = <<>>]_vars

\* An event is out while the write that ran after its own has ended too and
\* has no event yet.
C18_Witness ==
  /\ cfg.store = "sqlite"
  /\ Len(published) = 1
  /\ \E r \in 1..Len(reqs) :
       /\ reqs[r].pc = "write"
       /\ fut[reqs[r].t] = "fulfilled"
       /\ Completed(reqs[r].t) > Completed(reqs[published[1].req].t)

UpdateEvents == SelectSeq(published, LAMBDA ev : ev.msg.action = "update")

\* C19 as stated: the fields of every update event equal exactly the body of
\* the PUT request that published it.
C19_FieldsEqualBody ==
  \A i \in 1..Len(UpdateEvents) :
    UpdateEvents[i].msg.fields = reqs[UpdateEvents[i].req].body

\* C19, amended: the fields of an update event are the fields of the body of
\* its PUT request less the readonly ones, with the values of the body: exactly
\* the body when it names no readonly field, and no field of the merged entity
\* that the body did not name.
C19_FieldsArePatch ==
  \A i \in 1..Len(UpdateEvents) :
    LET fields == UpdateEvents[i].msg.fields
        rq == reqs[UpdateEvents[i].req]
    IN  /\ DOMAIN fields = DOMAIN rq.body \ readonlyFields
        /\ \A f \in DOMAIN fields : fields[f] = rq.body[f]
        /\ DOMAIN rq.body \cap readonlyFields = {} => fields = rq.body
        /\ \A f \in DOMAIN rq.item \ DOMAIN rq.body : f \notin DOMAIN fields

\* Two PUTs on one entity, one after the other, with the bodies {n} and {s}:
\* each event has the body of its request and the entity stored has both.
C19_Witness ==
  /\ Len(UpdateEvents) = 2
  /\ reqs[1].status = 200 /\ reqs[2].pc = "done"
  /\ UpdateEvents[1].req = 1 /\ UpdateEvents[2].req = 2
  /\ DOMAIN reqs[1].body \cap DOMAIN reqs[2].body = {}
  /\ UpdateEvents[1].msg.fields = reqs[1].body
  /\ UpdateEvents[2].msg.fields = reqs[2].body
  /\ \E i \in 1..Len(Stored) :
       /\ Stored[i].id = reqs[1].id
       /\ \A f \in DOMAIN reqs[1].body \cup DOMAIN reqs[2].body :
            Stored[i][f] = (IF f \in DOMAIN reqs[1].body THEN reqs[1].body[f]
                            ELSE reqs[2].body[f])

\* The items hold what the handler of request r (as it will be after this
\* step) set out to write.
Holds(items, r) ==
  IF reqs'[r].kind = "DELETE"
    THEN \A i \in 1..Len(items) : items[i].id # reqs'[r].id
    ELSE \E i \in 1..Len(items) : items[i] = reqs'[r].item

SuccessOf(kind) ==
  CASE kind = "POST" -> 201 [] kind = "PUT" -> 200 [] kind = "DELETE" -> 204

\* A resource with a topic while no server is registered.
NoSink == cfg.notify # "" /\ ~cfg.server

\* C20: on a resource with a topic but no sink registered nothing is ever
\* published, and a create, update or delete goes its way all the same: the
\* handler hands its items to the store (the memory store holds them at once,
\* the SQLite store gets them as the newest task of its queue), it answers
\* 201, 200 or 204 once the write has succeeded, and it answers with an
\* error only when the write itself failed.
C20_NoSinkNoFailure ==
  /\ [](NoSink =>
          /\ published = <<>>
          /\ \A r \in 1..Len(reqs) :
               /\ reqs[r].status = 500 => reqs[r].threw
               /\ (reqs[r].pc = "done" /\ reqs[r].t # 0 /\ ~reqs[r].threw) =>
                    reqs[r].status = SuccessOf(reqs[r].kind))
  /\ [][NoSink =>
          \A r \in 1..Len(reqs') :
            /\ (/\ reqs'[r].pc = "write"
                /\ r > Len(reqs) \/ reqs[r].pc # "write") =>
                 IF cfg.store = "memory" THEN Holds(mem', r)
                 ELSE /\ queue'[Len(queue')].id = reqs'[r].t
                      /\ queue'[Len(queue')].op.kind = "write"
                      /\ Holds(queue'[Len(queue')].op.items, r)
            /\ (/\ r <= Len(reqs)
                /\ reqs'[r].pc = "done"
                /\ reqs[r].pc = "write") =>
                 IF cfg.store = "sqlite" /\ fut[reqs[r].t] = "rejected"
                   THEN reqs'[r].status = 500
                   ELSE reqs'[r].status = SuccessOf(reqs[r].kind)]_vars

\* Without a sink a POST was answered 201 and a PUT 200, the store holds what
\* they wrote, and nothing was published.
C20_Witness ==
  /\ NoSink
  /\ published = <<>>
  /\ \E r, k \in 1..Len(reqs) :
       /\ reqs[r].kind = "POST" /\ reqs[r].status = 201
       /\ reqs[k].kind = "PUT" /\ reqs[k].status = 200
       /\ \E i \in 1..Len(Stored) : Stored[i] = reqs[r].item
       /\ \E i \in 1..Len(Stored) : Stored[i] = reqs[k].item

\* The policy the class as written puts on a route: on a CRUD route that of the
\* class, on the route of stats that of the method if it has one.
Covering(key) ==
  IF key = "stats" /\ decl.stats.set THEN decl.stats ELSE decl.auth

Judged == {r \in 1..Len(areqs) : Covering(areqs[r].key).set}

\* The three outcomes of a request to a handler under the policy p.
Trichotomy(rq, p) ==
  /\ rq.resolved = NoSession => rq.status = 401 /\ ~rq.invoked
  /\ rq.resolved # NoSession /\ p.role # "" /\ rq.resolved.role # p.role
       => rq.status = 403 /\ ~rq.invoked
  /\ rq.resolved # NoSession /\ (p.role = "" \/ rq.resolved.role = p.role)
       => rq.invoked /\ rq.seen = rq.resolved /\ rq.session = rq.resolved

\* C21 as the specification has it: every request to a handler an auth policy
\* covers ends in one of three ways: no identity resolved, 401, inner handler
\* not invoked; an identity whose role is not the one the policy names, 403,
\* inner handler not invoked; else the identity is attached to the request and
\* the inner handler is invoked.
C21_ThreeOutcomes ==
  \A r \in Judged :
    /\ areqs[r].pc # "done" => ~areqs[r].invoked
    /\ areqs[r].pc = "done" => Trichotomy(areqs[r], Covering(areqs[r].key))

\* C21: while a session store is registered under "sessions", a request to a
\* handler an auth policy covers ends in one of these three ways: no identity
\* resolved, 401, inner handler not invoked; an identity whose role is not the
\* one the policy names, 403, inner handler not invoked; else the identity is
\* attached to the request and the inner handler is invoked with it (a policy
\* without role admits every identity). With no session store registered the
\* response is 500 and the inner handler is not invoked.
C21_OutcomesWhenConfigured ==
  \A r \in Judged :
    /\ areqs[r].pc # "done" => ~areqs[r].invoked
    /\ areqs[r].pc = "done" =>
         IF areqs[r].configured
           THEN Trichotomy(areqs[r], Covering(areqs[r].key))
           ELSE areqs[r].status = 500 /\ ~areqs[r].invoked

\* A guest asked a CRUD route of a resource whose policy names admin: 403.
C21_Witness ==
  \E r \in Judged :
    /\ areqs[r].key = "PUT"
    /\ decl.auth.role = "admin"
    /\ areqs[r].resolved.role = "guest"
    /\ areqs[r].status = 403

\* C22: the route of a method is under the policy of the method when the
\* method has one, in whichever order @Auth and the route decorator stand on
\* it, else under the policy of the class, and with neither it is the bare
\* handler, which runs whoever asks and with or without a session store.
C22_MethodPolicyFirst ==
  routes # {} =>
    /\ \A h \in routes :
         h.key \notin CrudKeys =>
           /\ h.wrapped = Covering(h.key).set
           /\ h.wrapped => h.role = Covering(h.key).role
    /\ \A r \in 1..Len(areqs) :
         areqs[r].key \notin CrudKeys /\ areqs[r].pc = "done" =>
           IF Covering(areqs[r].key).set
             THEN areqs[r].configured
                    => Trichotomy(areqs[r], Covering(areqs[r].key))
             ELSE areqs[r].invoked /\ areqs[r].resolved = NoSession

\* @Auth() stands under @GET on stats in a class with @Auth("admin"): applied
\* first, and a guest gets through to stats.
C22_Witness ==
  /\ decl.auth.role = "admin"
  /\ decl.stats = [set |-> TRUE, role |-> ""]
  /\ decl.order[1].dec = "Auth"
  /\ \E r \in 1..Len(areqs) :
       /\ areqs[r].key = "stats"
       /\ areqs[r].resolved.role = "guest"
       /\ areqs[r].invoked

\* A required field the body lacks or gives a falsy value.
Unfilled(body) == {f \in requiredFields : f \notin DOMAIN body \/ body[f] = 0}

Invalid == {r \in 1..Len(reqs) : reqs[r].kind = "POST"
                                  /\ Unfilled(reqs[r].body) # {}}

\* C23: a POST whose body lacks a required field, or has a falsy value in it,
\* is answered 400 with an error that names such a field; its handler neither
\* reads nor writes the store, no step of it changes what the store holds or
\* what the write queue has to do, and it publishes nothing.
C23_RequiredRejected ==
  /\ [](\A r \in Invalid :
          /\ reqs[r].pc \in {"body", "parsed", "done"}
          /\ reqs[r].t = 0
          /\ EventsOf(r) = <<>>
          /\ reqs[r].pc = "done" =>
               /\ reqs[r].status = 400
               /\ reqs[r].error \in
                    {<<f, "is required">> : f \in Unfilled(reqs[r].body)})
  /\ [][\A r \in 1..Len(reqs') :
          (/\ reqs'[r].kind = "POST"
           /\ Unfilled(reqs'[r].body) # {}
           /\ r > Len(reqs) \/ reqs'[r] # reqs[r]) =>
            /\ mem' = mem
            /\ queue' = queue
            /\ eng' = eng
            /\ published' = published]_vars

\* A POST with n: 0 was answered 400 "n is required" next to a POST that was
\* answered 201.
C23_Witness ==
  \E r, k \in 1..Len(reqs) :
    /\ reqs[r].kind = "POST" /\ reqs[r].body = [n |-> 0]
    /\ reqs[r].status = 400
    /\ reqs[r].error = <<"n", "is required">>
    /\ reqs[k].status = 201

IdsOf(items) == {items[i].id : i \in 1..Len(items)}

\* What a handler step hands to store.write: the items the memory store holds
\* from then on, or those of the newest task of the write queue.
Written ==
  IF cfg.store = "memory" THEN mem' ELSE queue'[Len(queue')].op.items

ById == {"GET", "PUT", "DELETE"}

\* C25: a GET, PUT or DELETE for an id that no stored entity has when the
\* handler is called reads a collection without that id, and a handler that
\* read a collection without its id answers 404 with { error: "Not found" } as
\* its next and last step; no step of such a request changes what the store
\* holds or what the write queue has to do, and it publishes no event.
C25_AbsentIdIs404 ==
  /\ [](\A r \in 1..Len(reqs) :
          (reqs[r].kind \in ById /\ reqs[r].status = 404) =>
            /\ reqs[r].error = <<"Not found">>
            /\ reqs[r].t = 0
            /\ EventsOf(r) = <<>>)
  /\ [][\A r \in 1..Len(reqs') :
          /\ (/\ r > Len(reqs)
              /\ reqs'[r].kind \in ById
              /\ reqs'[r].id \notin IdsOf(Stored)) =>
               /\ reqs'[r].pc = "read"
               /\ reqs'[r].id \notin IdsOf(reqs'[r].items)
               /\ mem' = mem /\ queue' = queue /\ published' = published
               /\ IdsOf(Stored') = IdsOf(Stored)
          /\ (/\ r <= Len(reqs)
              /\ reqs[r].kind \in ById
              /\ reqs[r].pc = "read"
              /\ reqs[r].id \notin IdsOf(reqs[r].items)
              /\ reqs'[r] # reqs[r]) =>
               /\ reqs'[r].pc = "done"
               /\ reqs'[r].status = 404
               /\ mem' = mem /\ queue' = queue /\ published' = published
               /\ eng' = eng]_vars

\* A GET and a DELETE for a were both answered 404 on an empty collection.
C25_Witness ==
  /\ Stored = <<>>
  /\ \E r, k \in 1..Len(reqs) :
       /\ reqs[r].kind = "GET" /\ reqs[r].status = 404
       /\ reqs[k].kind = "DELETE" /\ reqs[k].status = 404

\* The table tb, as a store method called on the engine e finds it, is there
\* and has no row of this id.
Lacks(e, tb, id) ==
  LET p == Prepare(e, tb)
  IN  /\ e.stores[tb].made
      /\ ~p.threw
      /\ StmtsRun(p.e, tb)
      /\ ~HasId(RowsOf(p.e, tb), id)

\* The call returned v and left every file as prepare() made it.
Sentinel(e, tb, r, v) ==
  /\ ~r.threw
  /\ r.val = v
  /\ r.e.inodes = Prepare(e, tb).e.inodes

\* C26: on a table without a row of the id, findById returns null, update
\* returns null and remove returns false, without throwing and with every row
\* of every table left as it was; the promise of an update or remove task that
\* ran on such a table is fulfilled with that value.
C26_MissingIdSentinel ==
  /\ \A tb \in Tables, id \in Ids :
       Lacks(eng, tb, id) =>
         /\ Sentinel(eng, tb, OpFindById(eng, tb, id), [t |-> "null"])
         /\ Sentinel(eng, tb, OpUpdate(eng, tb, id, [v |-> 1]), [t |-> "null"])
         /\ Sentinel(eng, tb, OpRemove(eng, tb, id), [t |-> "bool", b |-> FALSE])
  /\ (dpc = "for" /\ bi > 1 /\ batch[bi - 1].op.kind \in {"update", "remove"}) =>
       LET op == batch[bi - 1].op
           t == batch[bi - 1].id
           before == RunSeq(batchPre[1], SubSeq(batch, 1, bi - 2)).e
       IN  Lacks(before, op.tb, op.id) =>
             /\ fut[t] = "fulfilled"
             /\ \E x \in inflight :
                  /\ x.t = t
                  /\ ~x.threw
                  /\ x.val = IF op.kind = "update" THEN [t |-> "null"]
                             ELSE [t |-> "bool", b |-> FALSE]
             /\ eng.inodes = Prepare(before, op.tb).e.inodes

\* An update of a ran on a table with rows but none of a: its promise is
\* fulfilled with null.
C26_Witness ==
  /\ dpc = "for" /\ bi > 1
  /\ batch[bi - 1].op.kind = "update"
  /\ RowsOf(eng, "alpha") # <<>>
  /\ ~HasId(RowsOf(eng, "alpha"), "a")
  /\ \E x \in inflight :
       x.t = batch[bi - 1].id /\ ~x.threw /\ x.val = [t |-> "null"]

\* C27: a connection is subscribed to nothing but notify topics of the
\* resources, whatever frames it has sent, and when the server handles an
\* opendoc frame for another topic no subscription of any connection changes.
C27_OnlyWhitelisted ==
  /\ [](\A c \in Conns : subs[c] \subseteq NotifyTopics(ResourceClasses))
  /\ [][\A c \in Conns :
          (/\ up[c] # <<>>
           /\ up'[c] = Tail(up[c])
           /\ Head(up[c]).action = "opendoc"
           /\ Head(up[c]).resource \notin NotifyTopics(ResourceClasses)) =>
            subs' = subs]_vars

\* The server is about to handle opendoc for notes from a connection that is
\* subscribed to todos.
C27_Witness ==
  \E c \in Conns :
    /\ subs[c] = {"todos"}
    /\ up[c] # <<>>
    /\ Head(up[c]) = Frame("opendoc", "notes")

\* C29: once the client is subscribed and no frame or event is on its way, the
\* map of connectTodos holds the collection of the server: no mutation
\* committed since the load is missing from it.
C29_NoRace ==
  (/\ client.pc = "live"
   /\ client.listening
   /\ "todos" \in subs[1]
   /\ up[1] = <<>>
   /\ down[1] = <<>>) => client.map = todos

\* C28: of the validate calls for one token at most one returns the user and
\* role, whether the calls follow one another or are in flight together, and a
\* call made after one has returned them returns null.
C28_SingleUse ==
  /\ \A v, w \in Accepted : vals[v].id = vals[w].id => v = w
  /\ \A v \in 1..Len(vals) :
       (vals[v].pc = "done" /\ \E w \in vals[v].after : vals[w].id = vals[v].id)
         => vals[v].result = "null"

\* A validate call made after another had returned the user and role returned
\* null.
C28_Sequential ==
  \E v \in 1..Len(vals) :
    vals[v].pc = "done" /\ vals[v].after # {} /\ vals[v].result = "null"

\* C30: what read() returns is the caller's own: the arrays two reads return
\* are two arrays, neither of them the array of the store, and a step in which
\* the caller pushes on a returned array, removes from it or assigns to a
\* field of one of its entities leaves what a later read() returns as it was.
C30_IndependentSnapshot ==
  /\ [](\A g, k \in 1..Len(taken) :
          /\ taken[g] # held
          /\ g # k => taken[g] # taken[k])
  /\ [][(taken' = taken /\ wrote' = wrote) => ReadValue' = ReadValue]_vars

\* On the SQLite store and on jsonFile the same holds.
C30_SqliteSnapshot ==
  /\ [](store # "memory" =>
          \A g, k \in 1..Len(taken) : g # k => taken[g] # taken[k])
  /\ [][(store # "memory" /\ taken' = taken /\ wrote' = wrote)
        => ReadValue' = ReadValue]_vars

\* C31: the step in which a write call succeeds leaves the store such that
\* read() returns the items of the call, entity for entity and in their
\* order, and nothing else; whatever the store held before is gone. This
\* holds of memoryStore, of jsonFile and of the SQLite store.
C31_WriteThenRead ==
  [][(wrote' # wrote /\ wrote'.ok) => ReadValue' = wrote'.items]_vars

\* A write of fewer entities than the store held has succeeded.
C31_Witness ==
  /\ wrote.ok
  /\ wrote.items = <<>>
  /\ ReadValue = <<>>
  /\ store = "sqlite"

\* C32: no factory returns a handle for a table name that does not match the
\* identifier pattern, the bound factory and the lazy one alike, and no
\* statement is built for such a name.
C32_InvalidNameFailsAtConstruction ==
  /\ \A h \in 1..Len(handles) : ValidName(handles[h].table)
  /\ \A table \in prepared : ValidName(table)

\* Of the bound factory, and of the statements, it holds.
C32_BoundFactoryFailsFast ==
  /\ \A h \in 1..Len(handles) :
       handles[h].kind = "bound" \/ handles[h].inner
         => ValidName(handles[h].table)
  /\ \A table \in prepared : ValidName(table)

\* The file the statements of table tb read, once tb has prepared.
ServedFile(e, tb) == e.inodes[StmtsInode(e, tb)]

\* The last statement of a restore of bytes that are no database is running.
BadRestoreEnds ==
  /\ dpc = "op"
  /\ dpc' = "for"
  /\ batch[bi].op.kind = "restore"
  /\ ~IsDb(batch[bi].op.data)

C34_GranularPreferred ==
  cfg.store = "sqlite" =>
    /\ \A i \in 1..Len(queue) : queue[i].op.kind # "write"
    /\ \A r \in 1..Len(reqs) : reqs[r].pc # "read"

\* The rows of every table of every file.
RowsIn(e) ==
  [i \in 1..Len(e.inodes) |->
     [tb \in Tables |-> e.inodes[i].tables[tb].rows]]

\* The connection db holds, the connections there are, the file at the path.
ConnectionOf(e) == <<e.db, e.conns, e.path, e.tmp, e.wal>>

\* C35 as stated: no file, no connection and no generation changes in a step
\* that is not the op of a queued task; read, findById and the making of a
\* handle leave the database as it is.
C35_OnlyTasksModify ==
  [][(\/ eng'.inodes # eng.inodes
      \/ ConnectionOf(eng') # ConnectionOf(eng)
      \/ eng'.generation # eng.generation) => dpc = "op"]_vars

\* C35, amended: the rows of the tables, the connection and the generation
\* change only in the op of a queued task; a call of write, insert, update,
\* remove, backup or restore enqueues and changes nothing of the engine; and a
\* step outside a task that changes the engine (the prepare of a read, a
\* findById or the making of a handle) enqueues nothing and changes no more
\* than the cached statements of handles and the existence of tables.
C35_Funneled ==
  [][/\ (\/ RowsIn(eng') # RowsIn(eng)
         \/ ConnectionOf(eng') # ConnectionOf(eng)
         \/ eng'.generation # eng.generation) => dpc = "op"
     /\ (dpc # "op" /\ Len(fut') > Len(fut)) => eng' = eng
     /\ (dpc # "op" /\ eng' # eng) =>
          /\ queue' = queue
          /\ fut' = fut
          /\ \A i \in 1..Len(eng.inodes) :
               eng'.inodes[i].fmt = eng.inodes[i].fmt]_vars

\* The op of an insert has run in a task, and the handle of a table the file
\* did not hold was made, which created the table outside any task.
C35_Witness ==
  /\ dpc = "for"
  /\ bi > 1
  /\ batch[bi - 1].op.kind = "insert"
  /\ fut[batch[bi - 1].id] = "fulfilled"
  /\ eng.stores.beta.made
  /\ FileOf(eng, eng.db).tables.beta.exists

\* item is stored overlaid with fields, under the id.
Overlay(stored, fields, id, item) ==
  /\ DOMAIN item = DOMAIN stored \cup DOMAIN fields \cup {"id"}
  /\ item.id = id
  /\ \A k \in DOMAIN fields \ {"id"} : item[k] = fields[k]
  /\ \A k \in DOMAIN stored \ (DOMAIN fields \cup {"id"}) : item[k] = stored[k]

\* Fields a caller may hand to update: some of them, or with an id of another
\* entity among them.
UpdateFields == { [n |-> 2], [id |-> "b", s |-> 5] }

\* The collection the PUT of request r hands to store.write in this step.
PutWritten ==
  IF cfg.store = "memory" THEN mem' ELSE queue'[Len(queue')].op.items

\* update(id, fields) on the engine e overlays the stored entity of that id,
\* whatever the id and the fields, and leaves the other rows alone.
UpdateOverlays(e) ==
  \A id \in Ids, fields \in UpdateFields :
    LET found == OpFindById(e, "alpha", id)
        r == OpUpdate(e, "alpha", id, fields)
    IN  (~found.threw /\ found.val.t = "item") =>
          /\ ~r.threw
          /\ r.val.t = "item"
          /\ Overlay(found.val.item, fields, id, r.val.item)
          /\ OpFindById(r.e, "alpha", id).val = r.val
          /\ Len(RowsOf(r.e, "alpha")) = Len(RowsOf(e, "alpha"))
          /\ \A i \in 1..Len(RowsOf(e, "alpha")) :
               LET was == RowsOf(e, "alpha")[i]
                   is == RowsOf(r.e, "alpha")[i]
               IN  /\ is.id = was.id
                   /\ was.id # id => is = was

\* C36: update(id, fields) on a stored entity returns and stores that entity
\* overlaid with fields under the addressed id, an id among the fields
\* notwithstanding, and leaves every other row alone, on the engine the
\* program starts with and on every engine a step leaves; and the collection
\* a PUT writes has the ids of the collection it read, in their places, the
\* addressed entity overlaid with the body under its own id and the others
\* as they were read, and that entity is what the PUT answers with.
C36_UpdateKeepsId ==
  /\ [](reqs = <<>> /\ cfg.store = "sqlite" => UpdateOverlays(eng))
  /\ [][(cfg.store = "sqlite" /\ eng' # eng) => UpdateOverlays(eng')]_vars
  /\ [][\A r \in 1..Len(reqs) :
          (reqs[r].kind = "PUT" /\ reqs[r].pc = "parsed"
             /\ reqs'[r].pc = "write") =>
            LET read == reqs[r].items
                idx == FindIndex(read, reqs[r].id)
            IN  /\ Len(PutWritten) = Len(read)
                /\ \A i \in 1..Len(read) :
                     /\ PutWritten[i].id = read[i].id
                     /\ i # idx => PutWritten[i] = read[i]
                /\ Overlay(read[idx], Strip(reqs[r].body), reqs[r].id,
                           PutWritten[idx])
                /\ reqs'[r].item = PutWritten[idx]]_vars

\* A PUT addressed to a whose body carries the id b was answered 200 on the
\* SQLite store.
C36_Witness ==
  /\ cfg.store = "sqlite"
  /\ \E r \in 1..Len(reqs) :
       /\ reqs[r].kind = "PUT"
       /\ reqs[r].status = 200
       /\ "id" \in DOMAIN reqs[r].body
       /\ reqs[r].body.id # reqs[r].id
       /\ reqs[r].item.id = reqs[r].id

\* The op of an update task, run by drain, does the same.
C36_UpdateInTask ==
  [][(dpc = "op" /\ rpc = 0 /\ batch[bi].op.kind = "update") =>
       LET op == batch[bi].op
           found == OpFindById(eng, op.tb, op.id)
       IN  (~found.threw /\ found.val.t = "item") =>
             /\ fut'[batch[bi].id] = "fulfilled"
             /\ Overlay(found.val.item, op.fields, op.id,
                        OpFindById(eng', op.tb, op.id).val.item)]_vars

\* What request r does to a collection when it runs alone.
Alone(items, r) ==
  CASE reqs[r].kind = "POST" -> Append(items, reqs[r].item)
    [] reqs[r].kind = "PUT" ->
         IF FindIndex(items, reqs[r].id) = 0 THEN items
         ELSE Replaced(items, FindIndex(items, reqs[r].id), reqs[r].fields,
                       reqs[r].id)
    [] reqs[r].kind = "DELETE" -> Filtered(items, reqs[r].id)
    [] OTHER -> items

\* The requests of the sequence order, each run alone on what the one before
\* left.
RECURSIVE OneAtATime(_, _)
OneAtATime(items, order) ==
  IF order = <<>> THEN items
  ELSE OneAtATime(Alone(items, Head(order)), Tail(order))

\* The orders in which the requests of the set S can be run.
Orders37(S) ==
  { f \in [1..Cardinality(S) -> S] :
      \A i, j \in 1..Cardinality(S) : f[i] = f[j] => i = j }

\* C37: once every request is answered, the store holds the entities that
\* running the requests answered 201, 200 or 204 one at a time, in some
\* order, leaves of the collection the program started with.
C37_OneAtATime ==
  (reqs # <<>> /\ \A r \in 1..Len(reqs) : reqs[r].pc = "done") =>
    \E init \in InitItems :
      \E order \in Orders37({r \in 1..Len(reqs) : Succeeded(r)}) :
        Range(OneAtATime(init, order)) = Range(Stored)

\* The restore that ran last in the batch was rejected.
RestoreFailed ==
  /\ dpc = "for"
  /\ bi > 1
  /\ batch[bi - 1].op.kind = "restore"
  /\ fut[batch[bi - 1].id] = "rejected"

\* C38: when a restore was rejected the tasks behind it in the batch are
\* still pending, the generation is the one before the restore, and the
\* engine serves as before: every handle reads what it read before the
\* restore, a handle can be made for every table, and a backup succeeds.
C38_FailedRestoreHarmless ==
  RestoreFailed =>
    LET before == RunSeq(batchPre[1], SubSeq(batch, 1, bi - 2)).e IN
    /\ \A i \in bi..Len(batch) : fut[batch[i].id] = "pending"
    /\ eng.generation = before.generation
    /\ \A tb \in Tables :
         /\ (before.stores[tb].made /\ ~OpRead(before, tb).threw) =>
              /\ ~OpRead(eng, tb).threw
              /\ OpRead(eng, tb).val = OpRead(before, tb).val
         /\ ~Prepare(before, tb).threw => ~Prepare(eng, tb).threw
    /\ ~OpBackup(before).threw => ~OpBackup(eng).threw

\* What does hold after a rejected restore: the tasks behind it are pending
\* and the generation is unchanged.
C38_OnlyOwnFuture ==
  RestoreFailed =>
    /\ \A i \in bi..Len(batch) : fut[batch[i].id] = "pending"
    /\ eng.generation
         = RunSeq(batchPre[1], SubSeq(batch, 1, bi - 2)).e.generation

\* The tasks of the batch the loop has not come to yet.
WaitingInBatch ==
  { k \in 1..Len(batch) : k >= bi + (IF dpc = "op" THEN 1 ELSE 0) }

\* How often task t has been started, and in how many places it waits.
Starts(t) == Cardinality({ i \in 1..Len(started) : started[i] = t })
Waits(t) ==
  Cardinality({ k \in 1..Len(queue) : queue[k].id = t })
    + Cardinality({ k \in WaitingInBatch : batch[k].id = t })

\* C39: every enqueued task is executed exactly once, whatever the
\* interleaving of enqueue calls and drain runs, tasks enqueued from inside a
\* running task or during a batch included: at every moment each task either
\* waits in one place (the queue or the rest of the batch) and has not been
\* started, or has been started once and waits nowhere; a waiting task always
\* has a drain running or scheduled; and when no drain runs or is scheduled
\* every task has been started once.
C39_ExactlyOnce ==
  /\ \A t \in 1..Len(fut) :
       /\ Starts(t) + Waits(t) = 1
       /\ fut[t] # "pending" => Starts(t) = 1
  /\ \A i \in 1..Len(started) : started[i] \in 1..Len(fut)
  /\ \A k \in 1..Len(queue) : queue[k].id \in 1..Len(fut)
  /\ queue # <<>> =>
       \/ dpc # "idle"
       \/ \E k \in 1..Len(micro) : micro[k] = DrainJob
  /\ (dpc = "idle" /\ \A k \in 1..Len(micro) : micro[k] # DrainJob) =>
       \A t \in 1..Len(fut) : Starts(t) = 1

\* The task a running task's op enqueued, in the middle of a batch, has run in
\* a later batch and its promise is fulfilled.
C39_Witness ==
  /\ dpc = "for"
  /\ bi > 1
  /\ \E n \in NestedInputs : batch[bi - 1].op = n.inner
  /\ batch[bi - 1].id > 1
  /\ Starts(batch[bi - 1].id) = 1
  /\ fut[batch[bi - 1].id] = "fulfilled"

\* The topics of a list, and the frames the server reads in their order.
TopicsOf(q) == { q[i] : i \in 1..Len(q) }

RECURSIVE ReadAll(_, _)
ReadAll(subscribed, frames) ==
  IF frames = <<>> THEN subscribed
  ELSE ReadAll(message(NotifyTopics(ResourceClasses), subscribed, Head(frames)),
               Tail(frames))

\* The wrapper is connected again after a close, and the server has read
\* every frame sent.
Reconnected == sock = "open" /\ timer.delay > 0 /\ wire = <<>>

\* C40 as stated: after every reconnect the topics the server has the
\* connection subscribed to are the topics opened through the wrapper and not
\* closed since.
C40_ServerEqualsOpenSet == Reconnected => served = wanted

\* C40, amended: the wrapper holds exactly the topics opened through it and
\* not closed since, each once, whether or not a connection was open when
\* they were opened or closed; on every open it sends opendoc for each of
\* them once and for nothing else, and the delay is 500 ms again; once the
\* server has read what an open connection carried, the connection is
\* subscribed to exactly those of the topics that are notify topics of the
\* server; every close doubles the delay, to 30000 ms at most, and the
\* doubled delay is the one waited before the next attempt.
C40_ResubscribedWhitelisted ==
  /\ [](/\ TopicsOf(subscriptions) = wanted
        /\ Cardinality(wanted) = Len(subscriptions)
        /\ sock = "open" =>
             ReadAll(served, wire) = wanted \cap NotifyTopics(ResourceClasses))
  /\ [][(sock # "open" /\ sock' = "open") =>
          /\ backoff' = 500
          /\ \A i \in 1..Len(wire') : wire'[i].action = "opendoc"
          /\ { wire'[i].resource : i \in 1..Len(wire') } = wanted
          /\ Len(wire') = Cardinality(wanted)]_vars
  /\ [][(sock # "closed" /\ sock' = "closed") =>
          /\ backoff' = (IF 2 * backoff > 30000 THEN 30000 ELSE 2 * backoff)
          /\ timer'.armed
          /\ timer'.delay = backoff']_vars

\* After two failed attempts the wrapper is connected again; todos and notes
\* were opened while no connection was open; the server has read the frames
\* and subscribed the connection to todos, its only notify topic among them.
C40_Witness ==
  /\ Reconnected
  /\ timer.delay >= 2000
  /\ backoff = 500
  /\ late = {"todos", "notes"}
  /\ wanted = {"todos", "notes"}
  /\ served = {"todos"}

====
